---- MODULE Spec2Model ----
(***************************************************************************)
(* Model of the aging-video pipeline of backend/app:                       *)
(*   - OpenAIService.generate_images_and_captions (the image chain),       *)
(*   - RemotionService.render_video (staging, descriptor, subprocess).     *)
(*                                                                         *)
(* Text that the code only passes around is an atomic string.  Text that   *)
(* the code takes apart as a path or URL is the sequence of its            *)
(* '/'-separated segments, as str.split('/') gives it:                     *)
(*   "/generated/a.png"  is  <<"", "generated", "a.png">>,                 *)
(*   "a.png"             is  <<"a.png">>,                                  *)
(*   ""                  is  <<"">>.                                       *)
(* The file system is a function from the paths of the files that exist    *)
(* to their contents.                                                      *)
(***************************************************************************)
EXTENDS Integers, Sequences, FiniteSets, TLC

VARIABLES
    now,                    \* int(time.time()): the wall clock, whole seconds
    fs,                     \* the files that exist: path -> content
    nextId,                 \* the next response identifier the image API assigns
    uuids,                  \* how many uuid4 tokens have been drawn
    \* ---- generate_images_and_captions (one call)
    gpc,                    \* "idle", "base", "loop", "sleep", "done"
    num_images,             \* the requested count
    ages,                   \* the planned ages
    gi,                     \* the loop variable i of the continuation loop
    previous_response_id,   \* the chain anchor
    generated_images,       \* the records collected so far
    gresult,                \* "none", "returned", "raised"
    calls,                  \* history: the API calls issued and how each step ended
    persisted,              \* history: the path written for each record
    slept,                  \* history: the loop positions after which the delay was taken
    \* ---- render_video (one call)
    rpc,                    \* "idle", "staging", "audio", "describing", "launch", "rendering", "done"
    images,                 \* the records passed in
    audio_file,             \* the audio reference passed in
    from_generate,          \* history: the records came unchanged from generate
    video_id,               \* str(int(time.time())) taken at entry
    ri,                     \* position in the staging loop
    photos_data,            \* the descriptors of the images staged so far
    audio_filename,         \* the name of the staged audio
    props_file_path,        \* the job-descriptor file
    output_path,            \* the target video file
    estimated_timeout,      \* the subprocess timeout
    launched,               \* history: how many times the renderer was launched
    proc,                   \* history: how the subprocess ended
    staging,                \* history: what staging did with each record
    rresult,                \* [kind |-> "none" | "returned" | "raised", value |-> ...]
    \* ---- across calls
    plan_in,                \* history: the arguments generate planned its ages from
    regens,                 \* history: the calls of regenerate_single_image, in order
    finished,               \* history: the render calls that ended before this one
    prompt,                 \* the text the caller sent, a sequence of characters
    duration_log,           \* history: the video length render_video logged
    timing,                 \* the three timing parameters passed to render_video
    conversions,            \* history: the calls of convert_to_mp3, in order
    uploaded                \* history: the calls of process_audio_upload, in order

gvars == <<gpc, num_images, ages, gi, previous_response_id, generated_images,
           gresult, calls, persisted, slept>>
rvars == <<rpc, images, audio_file, from_generate, video_id, ri, photos_data,
           audio_filename, props_file_path, output_path, estimated_timeout,
           launched, proc, staging, rresult>>
hvars == <<plan_in, regens, finished, prompt, duration_log, timing,
           conversions, uploaded>>
vars == <<now, fs, nextId, uuids, gvars, rvars, hvars>>

\* ------------------------------------------------------------------ bounds

MaxCount == 3       \* largest requested count
MaxTime == 1        \* the clock runs 0..MaxTime
MaxImages == 2      \* longest list of records handed to render directly

\* ------------------------------------------------------------- general helpers

None == "None"

\* None where a path or URL is expected.
NoPath == << >>

Min(a, b) == IF a < b THEN a ELSE b

\* Mutant of ListAppend: the new element is put in front.
ListPrepend(list, x) == <<x>> \o list

\* list.append
ListAppend(list, x) == Append(list, x)

\* response.id: the identifier the API assigns to its n-th response.
ResponseId(n) == "resp_" \o ToString(n)

\* The clock after an operation that took d seconds.
Later(d) == Min(now + d, MaxTime)

\* ------------------------------------------------------------------ paths

\* The repository root: Path(__file__).resolve().parent.parent.parent
BASE_DIR == <<"", "srv", "repo">>
GENERATED_DIR == BASE_DIR \o <<"generated">>
UPLOADS_DIR == BASE_DIR \o <<"uploads">>
\* The working directory the server runs in: run_server.py changes to backend/
CWD == BASE_DIR \o <<"backend">>

IsAbsolute(p) == Len(p) >= 2 /\ p[1] = ""

\* pathlib's  a / b  and os.path.join(a, b): an absolute b replaces a.
PathJoin(a, b) == IF IsAbsolute(b) THEN b ELSE a \o b

WriteFile(f, p, content) == (p :> content) @@ f

RemoveFile(f, p) == [q \in (DOMAIN f) \ {p} |-> f[q]]

\* ------------------------------------------------------------ AgeSequencer

\* The hand-tuned spreads for 1..9 images.
AgeTable(n) ==
    CASE n = 1 -> <<25>>
      [] n = 2 -> <<20, 60>>
      [] n = 3 -> <<20, 40, 60>>
      [] n = 4 -> <<20, 35, 50, 65>>
      [] n = 5 -> <<20, 30, 40, 50, 60>>
      [] n = 6 -> <<20, 30, 40, 50, 60, 70>>
      [] n = 7 -> <<20, 25, 35, 45, 55, 65, 75>>
      [] n = 8 -> <<20, 25, 35, 45, 55, 65, 75, 85>>
      [] n = 9 -> <<20, 25, 30, 40, 50, 60, 70, 80, 90>>

\* int(20 + i * (70 / (n - 1))) for i in range(n); empty when n <= 0.
EvenAges(n) == [k \in 1..n |-> 20 + ((k - 1) * 70) \div (n - 1)]

\* Mutant of PlanAges: a count below one is read as one.
PlanAgesAtLeastOne(n, custom, starting_age, age_gap) ==
    IF custom # << >> THEN custom
    ELSE IF n < 1 THEN AgeTable(1)
    ELSE IF starting_age # 0 /\ age_gap # 0
         THEN [k \in 1..n |-> starting_age + (k - 1) * age_gap]
    ELSE IF n \in 1..9 THEN AgeTable(n)
    ELSE EvenAges(n)

PlanAgesStartGapFirst(n, custom, starting_age, age_gap) ==
    IF starting_age # 0 /\ age_gap # 0
    THEN [k \in 1..n |-> starting_age + (k - 1) * age_gap]
    ELSE IF custom # << >> THEN custom
    ELSE IF n \in 1..9 THEN AgeTable(n)
    ELSE EvenAges(n)

\* The plan of ages.  custom is << >> when no list (or an empty one) is given;
\* "starting_age and age_gap" is true when both are non-zero.
PlanAges(n, custom, starting_age, age_gap) ==
    IF custom # << >> THEN custom
    ELSE IF starting_age # 0 /\ age_gap # 0
         THEN [k \in 1..n |-> starting_age + (k - 1) * age_gap]
    ELSE IF n \in 1..9 THEN AgeTable(n)
    ELSE EvenAges(n)

\* ------------------------------------------------------- the image chain

\* f"{age} Years Old"
AgeLabel(age) == ToString(age) \o " Years Old"

\* f"base_age_{base_age}_{int(time.time())}.png"
BaseFilename(age, t) == "base_age_" \o ToString(age) \o "_" \o ToString(t) \o ".png"

\* f"age_{current_age}_{int(time.time())}.png"
AgeFilename(age, t) == "age_" \o ToString(age) \o "_" \o ToString(t) \o ".png"

\* What _save_base64_image returns for a file name: "/generated/{filename}",
\* or "" when anything raised.
SavedUrl(filename, saved) ==
    IF saved = "ok" THEN <<"", "generated", filename>> ELSE <<"">>

\* Where _save_base64_image writes: GENERATED_DIR / filename
SavePath(filename) == GENERATED_DIR \o <<filename>>

\* The file system after _save_base64_image: the file holds the image, or what
\* was written of it when the write failed half way, or was never created.
SaveEffect(f, filename, data, saved) ==
    CASE saved = "ok" -> WriteFile(f, SavePath(filename), data)
      [] saved = "partial" -> WriteFile(f, SavePath(filename), "partial")
      [] saved = "nofile" -> f

\* What the image API can do with one request.
ApiOutcomes == {"raise", "noimage", "image"}
\* What _save_base64_image can do with one image.
SaveOutcomes == {"ok", "nofile", "partial"}

\* Mutant of BaseStepRaises: a response without an image is not checked for.
BaseStepRaisesOnErrorsOnly(api, saved) ==
    \/ api = "raise"
    \/ (api = "image" /\ saved # "ok")

\* The base step is fatal when the call raises, when the response has no
\* image_generation_call, and when the image cannot be saved.
BaseStepRaises(api, saved) ==
    \/ api = "raise"
    \/ api = "noimage"
    \/ (api = "image" /\ saved # "ok")

\* Mutant of StepSucceeds: the result of the save is not looked at.
StepSucceedsUnsaved(api, saved) == api = "image"

\* A continuation step yields a record only when the call returned an image
\* and the image was saved; every other outcome is skipped.
StepSucceeds(api, saved) == api = "image" /\ saved = "ok"

\* Mutant of NextAnchor: the anchor follows every response, with or without image.
NextAnchorOnAnyResponse(prev, api, saved, id) ==
    IF api = "raise" THEN prev ELSE id

NextAnchorForgets(prev, api, saved, id) ==
    IF api = "image" /\ saved = "ok" THEN id ELSE None

\* The anchor after a continuation step.
NextAnchor(prev, api, saved, id) ==
    IF StepSucceeds(api, saved) THEN id ELSE prev

\* Mutant of ContinuationRaises: the exception of the API call is not caught.
ContinuationRaisesOnApiError(api, saved) == api = "raise"

\* Whether a continuation step ends generate with an exception: the call is
\* inside try/except-continue and _save_base64_image returns "" instead of
\* raising, so no outcome does.
ContinuationRaises(api, saved) == FALSE

\* How a step ended, for the history.
StepOutcome(api, saved) ==
    CASE api = "raise" -> "raise"
      [] api = "noimage" -> "noimage"
      [] api = "image" /\ saved = "ok" -> "ok"
      [] OTHER -> "savefail"

\* Mutant of ContinuationYear: every record is labelled with the baseline year.
ContinuationYearBaseline(current_age, base_age) == "2025"

\* year=str(2025 + (current_age - base_age))
ContinuationYear(current_age, base_age) == ToString(2025 + (current_age - base_age))

GeneratedImage(url, age, year, call_id) ==
    [url |-> url, caption |-> "Age " \o ToString(age), age |-> AgeLabel(age),
     year |-> year, call_id |-> call_id]

\* ------------------------------------------------------------ _create_safe_prompt
\* The caller's text is a sequence of pieces; a piece is one whitespace
\* character or a run of text with no whitespace at either end.  A composed
\* prompt is the sequence of the pieces it is put together from.
Whitespace == {" ", "\n"}

RECURSIVE LStrip(_)
LStrip(s) ==
    IF s # << >> /\ s[1] \in Whitespace THEN LStrip(Tail(s)) ELSE s

RECURSIVE RStrip(_)
RStrip(s) ==
    IF s # << >> /\ s[Len(s)] \in Whitespace THEN RStrip(SubSeq(s, 1, Len(s) - 1)) ELSE s

StripTrailingOnly(s) == RStrip(s)

\* base_prompt.strip()
Strip(s) == RStrip(LStrip(s))

BaseTemplate(age) ==
    <<", person aged ", ToString(age), " years old, natural lighting, high quality">>

ProgressionTemplate(age, age_difference) ==
    <<", same person but ", ToString(age_difference), " years older (now aged ",
      ToString(age), "), natural aging progression, natural lighting, high quality">>

CreateSafePromptAlwaysBase(base_prompt, age, is_base, age_difference) ==
    Strip(base_prompt) \o BaseTemplate(age)

CreateSafePrompt(base_prompt, age, is_base, age_difference) ==
    Strip(base_prompt) \o
        (IF is_base THEN BaseTemplate(age) ELSE ProgressionTemplate(age, age_difference))

AgeDifferenceFromBase(plan, i) == plan[i + 1] - plan[1]

\* age_difference = current_age - ages[i-1], i being the loop position
AgeDifference(plan, i) == plan[i + 1] - plan[i]

PausesAfterAnyStep(api, saved) == TRUE

\* Every failure path of a pass is `continue`, which skips the sleep that
\* ends the pass.
PausesAfter(api, saved) == StepSucceeds(api, saved)

GenInit ==
    /\ gpc = "idle"
    /\ num_images = 0
    /\ ages = << >>
    /\ gi = 0
    /\ previous_response_id = None
    /\ generated_images = << >>
    /\ gresult = "none"
    /\ calls = << >>
    /\ persisted = << >>
    /\ slept = << >>

\* Entry of generate_images_and_captions: the plan.  base_age = ages[0] raises
\* IndexError on an empty plan.
GenStart(n, custom, starting_age, age_gap) ==
    /\ gpc = "idle"
    /\ num_images' = n
    /\ ages' = PlanAges(n, custom, starting_age, age_gap)
    /\ IF ages' = << >>
       THEN gpc' = "done" /\ gresult' = "raised"
       ELSE gpc' = "base" /\ gresult' = gresult
    /\ UNCHANGED <<gi, previous_response_id, generated_images, calls, persisted, slept>>
    /\ UNCHANGED <<now, fs, nextId, uuids, rvars>>
    /\ plan_in' = [custom |-> custom, starting_age |-> starting_age, age_gap |-> age_gap]
    /\ UNCHANGED <<regens, finished, prompt, duration_log, timing, conversions, uploaded>>

\* The base step: the call without continuation context, the save, the record.
GenBase(api, saved, d) ==
    /\ gpc = "base"
    /\ LET base_age == ages[1]
           id == IF api = "raise" THEN None ELSE ResponseId(nextId)
           t == Later(d)
           filename == BaseFilename(base_age, t)
           call == [i |-> 0, previous_response_id |-> None, is_base |-> TRUE,
                    age |-> base_age, age_difference |-> 0,
                    input |-> CreateSafePrompt(prompt, base_age, TRUE, 0),
                    outcome |-> StepOutcome(api, saved), id |-> id]
       IN /\ now' = t
          /\ nextId' = IF api = "raise" THEN nextId ELSE nextId + 1
          /\ calls' = Append(calls, call)
          /\ fs' = IF api = "image" THEN SaveEffect(fs, filename, id, saved) ELSE fs
          /\ IF BaseStepRaises(api, saved)
             THEN /\ gpc' = "done"
                  /\ gresult' = "raised"
                  /\ UNCHANGED <<generated_images, persisted, previous_response_id, gi>>
             ELSE /\ generated_images' =
                        ListAppend(generated_images,
                                   GeneratedImage(SavedUrl(filename, saved), base_age, "2025", id))
                  /\ persisted' = Append(persisted, SavePath(filename))
                  /\ previous_response_id' = id
                  /\ gi' = 1
                  /\ gpc' = "loop"
                  /\ gresult' = gresult
    /\ UNCHANGED <<num_images, ages, slept, uuids, rvars>>
    /\ UNCHANGED hvars

\* One pass of the continuation loop, up to the delay.
GenStep(api, saved, d) ==
    /\ gpc = "loop"
    /\ gi < Len(ages)
    /\ LET current_age == ages[gi + 1]
           age_difference == AgeDifference(ages, gi)
           base_age == ages[1]
           id == IF api = "raise" THEN None ELSE ResponseId(nextId)
           t == Later(d)
           filename == AgeFilename(current_age, t)
           call == [i |-> gi, previous_response_id |-> previous_response_id,
                    is_base |-> FALSE, age |-> current_age,
                    age_difference |-> age_difference,
                    input |-> CreateSafePrompt(prompt, current_age, FALSE, age_difference),
                    outcome |-> StepOutcome(api, saved), id |-> id]
       IN /\ now' = t
          /\ nextId' = IF api = "raise" THEN nextId ELSE nextId + 1
          /\ calls' = Append(calls, call)
          /\ fs' = IF api = "image" THEN SaveEffect(fs, filename, id, saved) ELSE fs
          /\ previous_response_id' = NextAnchor(previous_response_id, api, saved, id)
          /\ gresult' = IF ContinuationRaises(api, saved) THEN "raised" ELSE gresult
          /\ IF ContinuationRaises(api, saved)
             THEN /\ UNCHANGED <<generated_images, persisted, gi>>
                  /\ gpc' = "done"
             ELSE /\ IF StepSucceeds(api, saved)
                     THEN /\ generated_images' =
                                ListAppend(generated_images,
                                           GeneratedImage(SavedUrl(filename, saved), current_age,
                                                          ContinuationYear(current_age, base_age),
                                                          id))
                          /\ persisted' = Append(persisted, SavePath(filename))
                     ELSE UNCHANGED <<generated_images, persisted>>
                  /\ IF PausesAfter(api, saved)
                     THEN gpc' = "sleep" /\ gi' = gi
                     ELSE gpc' = "loop" /\ gi' = gi + 1
    /\ UNCHANGED <<num_images, ages, slept, uuids, rvars>>
    /\ UNCHANGED hvars

\* Mutant of GenSleep: the pause does not end.
GenSleepForever(d) ==
    /\ gpc = "sleep"
    /\ now' = Later(d)
    /\ UNCHANGED <<fs, nextId, uuids, gvars, rvars>>
    /\ UNCHANGED hvars

\* await asyncio.sleep(0.5) at the end of a pass that succeeded.
GenSleep(d) ==
    /\ gpc = "sleep"
    /\ now' = Later(d)
    /\ slept' = Append(slept, gi)
    /\ gi' = gi + 1
    /\ gpc' = "loop"
    /\ UNCHANGED <<num_images, ages, previous_response_id, generated_images, gresult,
                   calls, persisted, fs, nextId, uuids, rvars>>
    /\ UNCHANGED hvars

\* The loop is exhausted: return generated_images.
GenReturn ==
    /\ gpc = "loop"
    /\ gi >= Len(ages)
    /\ gpc' = "done"
    /\ gresult' = "returned"
    /\ UNCHANGED <<num_images, ages, gi, previous_response_id, generated_images,
                   calls, persisted, slept, now, fs, nextId, uuids, rvars>>
    /\ UNCHANGED hvars

\* --------------------------------------------------------- render: paths

\* self.project_path: abspath("../") from the working directory
PROJECT_PATH == BASE_DIR
PUBLIC_DIR == PROJECT_PATH \o <<"public">>
PUBLIC_IMAGES_DIR == PUBLIC_DIR \o <<"images">>
\* os.path.abspath(os.path.join("generated", ...)): relative to the working directory
PROPS_DIR == CWD \o <<"generated">>
\* os.path.join(self.project_path, "generated", ...)
OUTPUT_DIR == PROJECT_PATH \o <<"generated">>

IsPrefix(p, q) == Len(p) <= Len(q) /\ SubSeq(q, 1, Len(p)) = p

\* The directories that exist: the ones the services create at start-up, and
\* every directory above a file.
IsDirIn(f, p) ==
    \/ \E q \in {GENERATED_DIR, UPLOADS_DIR, PUBLIC_IMAGES_DIR, PROPS_DIR} : IsPrefix(p, q)
    \/ \E q \in DOMAIN f : Len(p) < Len(q) /\ IsPrefix(p, q)

\* os.path.exists / Path.exists
ExistsIn(f, p) == p \in DOMAIN f \/ IsDirIn(f, p)

\* Empty segments after the first are repeated or trailing slashes, which name
\* the same file.
RECURSIVE PathNorm(_)
PathNorm(p) ==
    IF Len(p) <= 1 THEN p
    ELSE IF p[Len(p)] = "" THEN PathNorm(SubSeq(p, 1, Len(p) - 1))
    ELSE PathNorm(SubSeq(p, 1, Len(p) - 1)) \o <<p[Len(p)]>>

\* The file a path names, joined to a directory.
Resolve(dir, p) == PathNorm(PathJoin(dir, p))

\* url.replace('/images/', ''): every occurrence, left to right, without
\* rescanning what was put together.
RECURSIVE ReplaceImagesFrom(_, _)
ReplaceImagesFrom(s, k) ==
    IF k > Len(s) - 1 THEN s
    ELSE IF s[k] = "images"
         THEN ReplaceImagesFrom(SubSeq(s, 1, k - 2) \o <<s[k - 1] \o s[k + 1]>>
                                    \o SubSeq(s, k + 2, Len(s)), k)
         ELSE ReplaceImagesFrom(s, k + 1)

StartsWithHttp(url) == Len(url) >= 3 /\ url[1] \in {"http:", "https:"} /\ url[2] = ""

StartsWithImages(url) == Len(url) >= 3 /\ url[1] = "" /\ url[2] = "images"

\* RemotionService._extract_filename_from_url
ExtractFilename(url) ==
    IF StartsWithHttp(url) THEN <<url[Len(url)]>>
    ELSE IF StartsWithImages(url) THEN ReplaceImagesFrom(url, 2)
    ELSE url

\* source_path = self.generated_dir / filename
SourcePath(url) == Resolve(GENERATED_DIR, ExtractFilename(url))

\* dest_path = os.path.join(public_images_dir, filename)
DestPath(url) == Resolve(PUBLIC_IMAGES_DIR, ExtractFilename(url))

\* os.path.splitext(audio_file)[1], for the audio names of the model.
SplitExt(name) ==
    CASE name = "song.mp3" -> ".mp3"
      [] name = "gone.wav" -> ".wav"
      [] OTHER -> ""

\* ---------------------------------------------------- render: messages

NoValidImagesMsg(n) == <<"No valid images found: ", ToString(n), ". Need at least 1.">>
AudioRequiredMsg ==
    <<"Audio file is required for video generation. Please provide a valid audio file.">>
AudioFailedMsg == <<"Failed to process audio file: ", "copy failed">>
PropsWriteMsg == <<"props write failed">>
LaunchMsg == <<"renderer could not be started">>
RenderFailedMsg(stderr) == <<"Remotion render failed: ", stderr>>
TimeoutMsgInMilliseconds(t) ==
    <<"Video rendering timed out after ", ToString(t * 1000),
      " seconds. This may be due to complex images or system performance. Try using fewer images or simpler content.">>

TimeoutMsg(t) ==
    <<"Video rendering timed out after ", ToString(t),
      " seconds. This may be due to complex images or system performance. Try using fewer images or simpler content.">>

Raised(msg) == [kind |-> "raised", value |-> msg]
Returned(v) == [kind |-> "returned", value |-> v]

\* ------------------------------------------------------ render: the steps

\* uuid.uuid4().hex[:8]: the n-th token drawn
Uuid(n) == "u" \o ToString(n)

\* "year": img.year or f"Age {img.age}"
YearLabel(img) == IF img.year # "" THEN img.year ELSE "Age " \o img.age

PhotoDataBareName(img) ==
    [year |-> YearLabel(img), age |-> img.age, image |-> ExtractFilename(img.url)]

\* The descriptor of one staged image.
PhotoData(img) ==
    [year |-> YearLabel(img), age |-> img.age,
     image |-> <<"images">> \o ExtractFilename(img.url)]

\* What _copy_images_to_public does with one record: "empty" (no url),
\* "notfound" (no source), "raised" (the copy raised: the source is a directory,
\* source and destination are the same file, or the copy itself failed), "staged".
StageDisposition(f, img, copyok) ==
    IF img.url = <<"">> THEN "empty"
    ELSE IF ~ExistsIn(f, SourcePath(img.url)) THEN "notfound"
    ELSE IF \/ SourcePath(img.url) \notin DOMAIN f
            \/ SourcePath(img.url) = DestPath(img.url)
            \/ ~copyok
         THEN "raised"
    ELSE "staged"

\* min(base_timeout + len(photos_data) * per_image_timeout, max_timeout)
base_timeout == 120
per_image_timeout == 30
max_timeout == 300
EstimatedTimeoutUncapped(n) == base_timeout + n * per_image_timeout

EstimatedTimeout(n) == Min(base_timeout + n * per_image_timeout, max_timeout)

\* The audio step: the precondition, then the copy under the job's name.
AudioMissing(f, a) == a = NoPath \/ a = <<"">> \/ ~ExistsIn(f, Resolve(CWD, a))

AudioFilename(vid, a) == "custom_audio_" \o vid \o SplitExt(a[Len(a)])

\* Mutant of AudioStep: without audio the render goes on silently.
AudioStepSilent(f, a, vid, copyok) ==
    IF AudioMissing(f, a)
    THEN [raised |-> FALSE, msg |-> << >>, fs |-> f, audio_filename |-> ""]
    ELSE IF Resolve(CWD, a) \notin DOMAIN f \/ ~copyok
    THEN [raised |-> TRUE, msg |-> AudioFailedMsg, fs |-> f, audio_filename |-> None]
    ELSE [raised |-> FALSE, msg |-> << >>,
          fs |-> WriteFile(f, PUBLIC_DIR \o <<AudioFilename(vid, a)>>, f[Resolve(CWD, a)]),
          audio_filename |-> AudioFilename(vid, a)]

AudioStep(f, a, vid, copyok) ==
    IF AudioMissing(f, a)
    THEN [raised |-> TRUE, msg |-> AudioRequiredMsg, fs |-> f, audio_filename |-> None]
    ELSE IF Resolve(CWD, a) \notin DOMAIN f \/ ~copyok
    THEN [raised |-> TRUE, msg |-> AudioFailedMsg, fs |-> f, audio_filename |-> None]
    ELSE [raised |-> FALSE, msg |-> << >>,
          fs |-> WriteFile(f, PUBLIC_DIR \o <<AudioFilename(vid, a)>>, f[Resolve(CWD, a)]),
          audio_filename |-> AudioFilename(vid, a)]

\* Mutant of ExitIsSuccess: any exit status of a process that ran counts.
ExitIsSuccessAnyStatus(code) == code >= 0

\* process.returncode == 0
ExitIsSuccess(code) == code = 0

\* Mutant of CleanUpProps: the staged audio is removed with the descriptor.
CleanUpPropsAndAudio(f, p, rmok) ==
    IF rmok /\ p \in DOMAIN f
    THEN [q \in (DOMAIN f) \ {p, PUBLIC_DIR \o <<audio_filename>>} |-> f[q]]
    ELSE f

\* Mutant of CleanUpProps: the descriptor is not removed.
CleanUpPropsNever(f, p, rmok) == f

\* os.remove(props_file_path) inside try/except-pass: a failed removal is swallowed.
CleanUpProps(f, p, rmok) == IF rmok /\ p \in DOMAIN f THEN RemoveFile(f, p) ELSE f

\* Durations in seconds are kept in tenths of a second: 2.0 s is 20, 0.5 s is 5.
\* The routes that render pass these three values.
duration_per_image == 20
transition_duration == 5
text_transition_duration == 10

DefaultTiming ==
    [duration_per_image |-> duration_per_image,
     transition_duration |-> transition_duration,
     text_transition_duration |-> text_transition_duration]

RenderInit ==
    /\ rpc = "idle"
    /\ images = << >>
    /\ audio_file = NoPath
    /\ from_generate = FALSE
    /\ video_id = None
    /\ ri = 1
    /\ photos_data = << >>
    /\ audio_filename = None
    /\ props_file_path = NoPath
    /\ output_path = NoPath
    /\ estimated_timeout = 0
    /\ launched = 0
    /\ proc = [kind |-> "none", code |-> 0, stderr |-> "", rmok |-> TRUE]
    /\ staging = << >>
    /\ rresult = [kind |-> "none", value |-> << >>]

\* Entry of render_video.
RenderStartTimed(imgs, audio, fromgen, tm) ==
    /\ rpc = "idle"
    /\ rpc' = "staging"
    /\ images' = imgs
    /\ audio_file' = audio
    /\ from_generate' = fromgen
    /\ video_id' = ToString(now)
    /\ UNCHANGED <<ri, photos_data, audio_filename, props_file_path, output_path,
                   estimated_timeout, launched, proc, rresult, staging>>
    /\ UNCHANGED <<now, fs, nextId, uuids, gvars>>
    /\ timing' = tm
    /\ UNCHANGED <<plan_in, regens, finished, prompt, duration_log, conversions, uploaded>>

\* render_video with the timing the routes pass.
RenderStart(imgs, audio, fromgen) == RenderStartTimed(imgs, audio, fromgen, DefaultTiming)

\* One pass of the loop of _copy_images_to_public.
RenderCopyImage(copyok) ==
    /\ rpc = "staging"
    /\ ri <= Len(images)
    /\ LET img == images[ri]
           what == StageDisposition(fs, img, copyok)
       IN /\ staging' = Append(staging, what)
          /\ IF what = "staged"
             THEN /\ fs' = WriteFile(fs, DestPath(img.url), fs[SourcePath(img.url)])
                  /\ photos_data' = ListAppend(photos_data, PhotoData(img))
             ELSE UNCHANGED <<fs, photos_data>>
    /\ ri' = ri + 1
    /\ UNCHANGED <<rpc, images, audio_file, from_generate, video_id, audio_filename,
                   props_file_path, output_path, estimated_timeout, launched, proc, rresult>>
    /\ UNCHANGED <<now, nextId, uuids, gvars>>
    /\ UNCHANGED hvars

\* Mutant of TooFewImages: an empty list passes.
TooFewImagesNever(n) == n < 0

\* len(photos_data) < 1
TooFewImages(n) == n < 1

RenderStagedThenLaunch ==
    /\ rpc = "staging"
    /\ ri > Len(images)
    /\ IF TooFewImages(Len(photos_data))
       THEN rpc' = "done" /\ rresult' = Raised(NoValidImagesMsg(Len(photos_data)))
       ELSE rpc' = "launch" /\ rresult' = rresult
    /\ UNCHANGED <<images, audio_file, from_generate, video_id, ri, photos_data,
                   audio_filename, props_file_path, output_path, estimated_timeout,
                   launched, proc, staging>>
    /\ UNCHANGED <<now, fs, nextId, uuids, gvars>>
    /\ UNCHANGED hvars

\* After the loop: at least one image must have been staged.
RenderStaged ==
    /\ rpc = "staging"
    /\ ri > Len(images)
    /\ IF TooFewImages(Len(photos_data))
       THEN rpc' = "done" /\ rresult' = Raised(NoValidImagesMsg(Len(photos_data)))
       ELSE rpc' = "audio" /\ rresult' = rresult
    /\ UNCHANGED <<images, audio_file, from_generate, video_id, ri, photos_data,
                   audio_filename, props_file_path, output_path, estimated_timeout,
                   launched, proc, staging>>
    /\ UNCHANGED <<now, fs, nextId, uuids, gvars>>
    /\ UNCHANGED hvars

\* Step 2: the audio.
RenderAudio(copyok) ==
    /\ rpc = "audio"
    /\ LET r == AudioStep(fs, audio_file, video_id, copyok)
       IN /\ fs' = r.fs
          /\ audio_filename' = r.audio_filename
          /\ IF r.raised
             THEN rpc' = "done" /\ rresult' = Raised(r.msg)
             ELSE rpc' = "describing" /\ rresult' = rresult
    /\ UNCHANGED <<images, audio_file, from_generate, video_id, ri, photos_data,
                   props_file_path, output_path, estimated_timeout, launched, proc, staging>>
    /\ UNCHANGED <<now, nextId, uuids, gvars>>
    /\ UNCHANGED hvars

\* The job descriptor.
RemotionProps(title, name, audio, photos, dpi, td, ttd) ==
    [title |-> title, name |-> name, audioFile |-> audio, images |-> photos,
     durationPerImage |-> dpi, transitionDuration |-> td, textTransitionDuration |-> ttd]

ExpectedDurationGapPerImage(n, dpi, td) == n * dpi + n * td

\* len(photos_data) * duration_per_image + (len(photos_data)-1) * transition_duration
ExpectedDuration(n, dpi, td) == n * dpi + (n - 1) * td

\* f"{x:.1f}" of a non-negative number of whole tenths
FormatTenths(x) == ToString(x \div 10) \o "." \o ToString(x % 10)

\* Steps 3 to 6: the descriptor file, the output path, the timeout.  Writing
\* the file may fail before it is created or half way.
RenderDescribe(written) ==
    /\ rpc = "describing"
    /\ LET path == PROPS_DIR \o <<"video_props_" \o Uuid(uuids) \o ".json">>
           props == RemotionProps("title", "name", audio_filename, photos_data,
                                  timing.duration_per_image, timing.transition_duration,
                                  timing.text_transition_duration)
       IN /\ props_file_path' = path
          /\ CASE written = "ok" ->
                    /\ fs' = WriteFile(fs, path, props)
                    /\ output_path' = OUTPUT_DIR \o <<"aging_video_" \o Uuid(uuids + 1) \o ".mp4">>
                    /\ estimated_timeout' = EstimatedTimeout(Len(photos_data))
                    /\ uuids' = uuids + 2
                    /\ rpc' = "launch"
                    /\ rresult' = rresult
               [] written = "partial" ->
                    /\ fs' = WriteFile(fs, path, [title |-> "title"])
                    /\ uuids' = uuids + 1
                    /\ rpc' = "done"
                    /\ rresult' = Raised(PropsWriteMsg)
                    /\ UNCHANGED <<output_path, estimated_timeout>>
               [] written = "nofile" ->
                    /\ fs' = fs
                    /\ uuids' = uuids + 1
                    /\ rpc' = "done"
                    /\ rresult' = Raised(PropsWriteMsg)
                    /\ UNCHANGED <<output_path, estimated_timeout>>
    /\ UNCHANGED <<images, audio_file, from_generate, video_id, ri, photos_data,
                   audio_filename, launched, proc, staging>>
    /\ UNCHANGED <<now, nextId, gvars>>
    /\ duration_log' = FormatTenths(ExpectedDuration(Len(photos_data),
                                                     timing.duration_per_image,
                                                     timing.transition_duration))
    /\ UNCHANGED <<plan_in, regens, finished, prompt, timing, conversions, uploaded>>

\* subprocess.run starts the renderer, or raises when it cannot be started.
RenderLaunch(started) ==
    /\ rpc = "launch"
    /\ IF started
       THEN rpc' = "rendering" /\ launched' = launched + 1 /\ rresult' = rresult
       ELSE rpc' = "done" /\ launched' = launched /\ rresult' = Raised(LaunchMsg)
    /\ UNCHANGED <<images, audio_file, from_generate, video_id, ri, photos_data,
                   audio_filename, props_file_path, output_path, estimated_timeout,
                   proc, staging>>
    /\ UNCHANGED <<now, fs, nextId, uuids, gvars>>
    /\ UNCHANGED hvars

RenderExitRetrying(code, stderr, rmok, d) ==
    /\ rpc = "rendering"
    /\ now' = Later(d)
    /\ proc' = [kind |-> "exit", code |-> code, stderr |-> stderr, rmok |-> rmok]
    /\ IF ExitIsSuccess(code)
       THEN /\ fs' = CleanUpProps(WriteFile(fs, output_path, "video"), props_file_path, rmok)
            /\ rpc' = "done"
            /\ rresult' = Returned(output_path)
       ELSE /\ fs' = fs
            /\ rpc' = "launch"
            /\ rresult' = rresult
    /\ UNCHANGED <<images, audio_file, from_generate, video_id, ri, photos_data,
                   audio_filename, props_file_path, output_path, estimated_timeout,
                   launched, staging>>
    /\ UNCHANGED <<nextId, uuids, gvars>>
    /\ UNCHANGED hvars

\* Step 8: the renderer exited within the timeout.
RenderExit(code, stderr, rmok, d) ==
    /\ rpc = "rendering"
    /\ now' = Later(d)
    /\ proc' = [kind |-> "exit", code |-> code, stderr |-> stderr, rmok |-> rmok]
    /\ rpc' = "done"
    /\ IF ExitIsSuccess(code)
       THEN /\ fs' = CleanUpProps(WriteFile(fs, output_path, "video"), props_file_path, rmok)
            /\ rresult' = Returned(output_path)
       ELSE /\ fs' = CleanUpProps(fs, props_file_path, rmok)
            /\ rresult' = Raised(RenderFailedMsg(stderr))
    /\ UNCHANGED <<images, audio_file, from_generate, video_id, ri, photos_data,
                   audio_filename, props_file_path, output_path, estimated_timeout,
                   launched, staging>>
    /\ UNCHANGED <<nextId, uuids, gvars>>
    /\ UNCHANGED hvars

\* subprocess.TimeoutExpired: the descriptor file stays.
RenderTimeout ==
    /\ rpc = "rendering"
    /\ now' = MaxTime
    /\ proc' = [kind |-> "timeout", code |-> 0, stderr |-> "", rmok |-> TRUE]
    /\ rpc' = "done"
    /\ rresult' = Raised(TimeoutMsg(estimated_timeout))
    /\ UNCHANGED <<images, audio_file, from_generate, video_id, ri, photos_data,
                   audio_filename, props_file_path, output_path, estimated_timeout,
                   launched, staging>>
    /\ UNCHANGED <<fs, nextId, uuids, gvars>>
    /\ UNCHANGED hvars

\* ------------------------------------------------------- AudioProcessor

\* self.max_file_size
max_file_size == 50 * 1024 * 1024

\* self.supported_formats
supported_formats == {".mp3", ".wav", ".m4a", ".aac", ".ogg"}

\* Path(file_path).suffix.lower(), for the upload names of the model. The
\* stored name is prefix_timestamp_filename and neither the prefix nor the
\* timestamp holds a dot, so the suffix is that of the uploaded filename.
Suffix(filename) ==
    CASE filename = "voice.wav" -> ".wav"
      [] filename = "VOICE.MP3" -> ".mp3"
      [] filename = "notes.txt" -> ".txt"
      [] filename = "dummy.mp3" -> ".mp3"
      [] filename = "song.mp3" -> ".mp3"
      [] OTHER -> ""

\* os.path.getsize, for the contents of the model.
FileSize(content) ==
    CASE content = "" -> 0
      [] content = "huge" -> max_file_size + 1
      [] OTHER -> 1

\* What writing a file did: all of it, nothing (the call raised before the
\* file was created) or a part of it (the call raised after).
IoOutcomes == {"ok", "failed", "truncated"}

\* How the ffmpeg subprocess ended: exit status 0 with or without the target
\* file, a non-zero exit status, the 60 s timeout, or no ffmpeg to run.
TranscoderOutcomes == {"ok", "no_output", "nonzero", "timeout", "not_installed"}

\* validate_audio: the checks that decide 'valid' and 'needs_conversion'
\* (the ffprobe duration is informational and decides nothing).
ValidateAudio(f, file_path, filename) ==
    LET file_ext == Suffix(filename)
    IN  CASE file_path \notin DOMAIN f -> [valid |-> FALSE, error |-> "File not found"]
          [] file_ext = "" -> [valid |-> FALSE, error |-> "No file extension found"]
          [] file_ext \notin supported_formats ->
                [valid |-> FALSE, error |-> "Unsupported format: " \o file_ext]
          [] FileSize(f[file_path]) > max_file_size ->
                [valid |-> FALSE, error |-> "File too large (max 50MB)"]
          [] FileSize(f[file_path]) = 0 -> [valid |-> FALSE, error |-> "File is empty"]
          [] OTHER -> [valid |-> TRUE, needs_conversion |-> file_ext # ".mp3"]

\* shutil.copy2(src, dst)
CopyFile(f, src, dst, outcome) ==
    CASE outcome = "ok" -> WriteFile(f, dst, f[src])
      [] outcome = "truncated" -> WriteFile(f, dst, "partial")
      [] OTHER -> f

\* What the ffmpeg run leaves at the target: the transcoded audio on success;
\* a failed or killed run may have created the target before it ended.
TranscoderEffect(f, input_path, mp3_path, transcoder, wrote) ==
    CASE transcoder = "ok" -> WriteFile(f, mp3_path, "mp3 of " \o f[input_path])
      [] transcoder \in {"nonzero", "timeout"} /\ wrote -> WriteFile(f, mp3_path, "partial")
      [] OTHER -> f

\* Mutant of FallsBackToCopy: a timed-out run is not followed by a copy.
FallsBackToCopyUnlessTimeout(transcoder) == transcoder \in {"nonzero", "not_installed"}

\* The outcomes after which the input is copied to the target: the else branch
\* of `returncode == 0` (108-112) and the handlers of TimeoutExpired (120-127)
\* and FileNotFoundError (131-138).
FallsBackToCopy(transcoder) == transcoder \in {"nonzero", "timeout", "not_installed"}

\* The copy of the else branch (112) is inside the try: when it raises, the
\* handler of Exception (142-149) copies once more. The copies of the
\* handlers are tried once.
CopiesTwice(transcoder) == transcoder = "nonzero"

\* convert_to_mp3: the files afterwards and the path returned (NoPath for None).
ConvertToMp3(f, input_path, output_filename, readable, transcoder, wrote, copy1, copy2) ==
    LET mp3_path == PathJoin(UPLOADS_DIR, <<output_filename>>)
        ran == TranscoderEffect(f, input_path, mp3_path, transcoder, wrote)
        first == CopyFile(ran, input_path, mp3_path, copy1)
        second == CopyFile(first, input_path, mp3_path, copy2)
    IN  CASE input_path \notin DOMAIN f \/ ~readable -> [fs |-> f, path |-> NoPath]
          [] ~FallsBackToCopy(transcoder) ->
                [fs |-> ran,
                 path |-> IF mp3_path \in DOMAIN ran THEN mp3_path ELSE NoPath]
          [] copy1 = "ok" -> [fs |-> first, path |-> mp3_path]
          [] CopiesTwice(transcoder) ->
                [fs |-> second, path |-> IF copy2 = "ok" THEN mp3_path ELSE NoPath]
          [] OTHER -> [fs |-> first, path |-> NoPath]

\* What the environment does to one conversion: whether the input can be
\* read, how ffmpeg ends and whether it created the target, and how the first
\* and the second copy end. Outcomes of operations that are not run are fixed.
ConversionRuns ==
    {e \in [readable : BOOLEAN, transcoder : TranscoderOutcomes, wrote : BOOLEAN,
            copy1 : IoOutcomes, copy2 : IoOutcomes] :
        /\ e.wrote => e.transcoder \in {"nonzero", "timeout"}
        /\ ~FallsBackToCopy(e.transcoder) => e.copy1 = "ok"
        /\ (~CopiesTwice(e.transcoder) \/ e.copy1 = "ok") => e.copy2 = "ok"
        /\ ~e.readable => e.transcoder = "ok"}

MaxAudioCalls == 1

\* One call of convert_to_mp3(input_path, output_filename).
Convert(input_path, output_filename, e) ==
    /\ Len(conversions) + Len(uploaded) < MaxAudioCalls
    /\ LET r == ConvertToMp3(fs, input_path, output_filename, e.readable,
                             e.transcoder, e.wrote, e.copy1, e.copy2)
           mp3_path == PathJoin(UPLOADS_DIR, <<output_filename>>)
       IN /\ fs' = r.fs
          /\ conversions' = Append(conversions,
                [input_path |-> input_path, output_path |-> mp3_path, run |-> e,
                 present |-> input_path \in DOMAIN fs,
                 source |-> IF input_path \in DOMAIN fs THEN fs[input_path] ELSE None,
                 target |-> IF mp3_path \in DOMAIN r.fs THEN r.fs[mp3_path] ELSE None,
                 returned |-> r.path])
    /\ UNCHANGED <<now, nextId, uuids, gvars, rvars>>
    /\ UNCHANGED <<plan_in, regens, finished, prompt, duration_log, timing, uploaded>>

\* ------------------------------------------------- process_audio_upload

\* f"{file_prefix}_{timestamp}_{audio_file.filename}"
OriginalFilename(file_prefix, timestamp, filename) ==
    file_prefix \o "_" \o ToString(timestamp) \o "_" \o filename

\* f"converted_{file_prefix}_{timestamp}.mp3"
ConvertedFilename(file_prefix, timestamp) ==
    "converted_" \o file_prefix \o "_" \o ToString(timestamp) \o ".mp3"

NoAudioMsg == <<"No audio file provided. Please upload an audio file to create a video with sound.">>
EmptyAudioMsg == <<"Audio file is empty">>
InvalidAudioMsg(error) == <<"Invalid audio file: ", error>>
ProcessingFailedMsg == <<"Audio processing failed: ">>

\* `with open(temp_audio_path, "wb") as buffer: buffer.write(content)`
SaveUpload(f, p, content, saved) ==
    CASE saved = "ok" -> WriteFile(f, p, content)
      [] saved = "truncated" -> WriteFile(f, p, "partial")
      [] OTHER -> f

\* `if os.path.exists(temp_audio_path_str): os.remove(temp_audio_path_str)`
RemoveOriginal(f, p) == IF p \in DOMAIN f THEN RemoveFile(f, p) ELSE f

\* process_audio_upload: the files afterwards and how the call ended. filename
\* is "" when no file was sent; saved is what writing the upload did and e
\* what the environment does to the conversion.
ProcessAudioUpload(f, filename, content, file_prefix, require_audio, validate_and_convert, timestamp, saved, e) ==
    LET temp_audio_path == PathJoin(UPLOADS_DIR, <<OriginalFilename(file_prefix, timestamp, filename)>>)
        stored == SaveUpload(f, temp_audio_path, content, saved)
        validation == ValidateAudio(stored, temp_audio_path, filename)
        c == ConvertToMp3(stored, temp_audio_path, ConvertedFilename(file_prefix, timestamp),
                          e.readable, e.transcoder, e.wrote, e.copy1, e.copy2)
    IN  CASE filename \in {"", "dummy.mp3"} ->
                [fs |-> f, result |-> IF require_audio THEN Raised(NoAudioMsg)
                                                      ELSE Returned(NoPath)]
          [] content = "" ->
                [fs |-> f, result |-> IF require_audio THEN Raised(EmptyAudioMsg)
                                                      ELSE Returned(NoPath)]
          [] saved # "ok" -> [fs |-> stored, result |-> Raised(ProcessingFailedMsg)]
          [] ~validate_and_convert -> [fs |-> stored, result |-> Returned(temp_audio_path)]
          [] ~validation.valid ->
                [fs |-> RemoveOriginal(stored, temp_audio_path),
                 result |-> Raised(InvalidAudioMsg(validation.error))]
          [] ~validation.needs_conversion ->
                [fs |-> stored, result |-> Returned(temp_audio_path)]
          [] c.path # NoPath ->
                [fs |-> RemoveOriginal(c.fs, temp_audio_path), result |-> Returned(c.path)]
          [] OTHER -> [fs |-> c.fs, result |-> Returned(temp_audio_path)]

\* What the environment does to one upload: how the write of the upload ends
\* and, when a conversion is run, what happens to it.
UploadRuns(filename, content, validate_and_convert) ==
    {r \in [saved : IoOutcomes, conversion : ConversionRuns] :
        LET converts == /\ filename \notin {"", "dummy.mp3"}
                        /\ content \notin {"", "huge"}
                        /\ r.saved = "ok"
                        /\ validate_and_convert
                        /\ Suffix(filename) \in supported_formats \ {".mp3"}
            saves == filename \notin {"", "dummy.mp3"} /\ content # ""
        IN /\ ~saves => r.saved = "ok"
           /\ ~converts => r.conversion = [readable |-> TRUE, transcoder |-> "ok",
                                           wrote |-> FALSE, copy1 |-> "ok", copy2 |-> "ok"]
           /\ r.conversion.readable}

\* One call of process_audio_upload, from the read of the upload to its end:
\* nothing in it awaits after `await audio_file.read()`.
Upload(filename, content, file_prefix, require_audio, validate_and_convert, r) ==
    /\ Len(conversions) + Len(uploaded) < MaxAudioCalls
    /\ LET u == ProcessAudioUpload(fs, filename, content, file_prefix, require_audio,
                                   validate_and_convert, now, r.saved, r.conversion)
       IN /\ fs' = u.fs
          /\ uploaded' = Append(uploaded,
                [filename |-> filename, content |-> content, file_prefix |-> file_prefix,
                 require_audio |-> require_audio,
                 validate_and_convert |-> validate_and_convert, run |-> r,
                 timestamp |-> now, result |-> u.result,
                 left |-> (DOMAIN u.fs) \ (DOMAIN fs)])
    /\ UNCHANGED <<now, nextId, uuids, gvars, rvars>>
    /\ UNCHANGED <<plan_in, regens, finished, prompt, duration_log, timing, conversions>>

\* ------------------------------------------------------ the specifications

\* Files present when the server takes a request: two images of earlier
\* requests in the generated directory, one uploaded audio file.
InitFs ==
    (GENERATED_DIR \o <<"old.png">> :> "image old")
        @@ (GENERATED_DIR \o <<"old2.png">> :> "image old2")
        @@ (UPLOADS_DIR \o <<"song.mp3">> :> "audio song")

\* The server has started and a request carrying the text p is about to be served.
InitWith(p) ==
    /\ now = 0
    /\ fs = InitFs
    /\ nextId = 1
    /\ uuids = 0
    /\ GenInit
    /\ RenderInit
    /\ plan_in = [custom |-> << >>, starting_age |-> 0, age_gap |-> 0]
    /\ regens = << >>
    /\ finished = << >>
    /\ prompt = p
    /\ duration_log = None
    /\ timing = DefaultTiming
    /\ conversions = << >>
    /\ uploaded = << >>

Init == InitWith(<<"a">>)

\* The inputs of generate: counts, explicit ages, start and gap.
Counts == -1..MaxCount
CustomAges == {<< >>, <<50, 20, 20>>}
StartGaps == {<<20, 15>>, <<0, 0>>}
Durations == 0..1

GenSteps ==
    \/ \E api \in ApiOutcomes, saved \in SaveOutcomes, d \in Durations : GenBase(api, saved, d)
    \/ \E api \in ApiOutcomes, saved \in SaveOutcomes, d \in Durations : GenStep(api, saved, d)
    \/ \E d \in Durations : GenSleep(d)
    \/ GenReturn

GenNext ==
    \/ \E n \in Counts, custom \in CustomAges, sg \in StartGaps :
            GenStart(n, custom, sg[1], sg[2])
    \/ GenSteps

\* generate_images_and_captions alone.
SpecGen == Init /\ [][GenNext]_vars

\* The records a caller can hand to render_video: a bare file name (as the
\* render route stores it), "/images/<name>" (as the repository's test passes
\* it), a full URL, a name without a file, no reference, and the shape
\* generate returns.
ImageChoices ==
    { [url |-> <<"old.png">>, caption |-> "Age 20", age |-> "20 Years Old",
       year |-> "2025", call_id |-> None],
      [url |-> <<"", "images", "old2.png">>, caption |-> "Age 40", age |-> "40",
       year |-> "", call_id |-> None],
      [url |-> <<"http:", "", "localhost:8000", "images", "old.png">>, caption |-> "Age 60",
       age |-> "60 Years Old", year |-> "2065", call_id |-> None],
      [url |-> <<"gone.png">>, caption |-> "Age 70", age |-> "70 Years Old",
       year |-> "2075", call_id |-> None],
      [url |-> <<"">>, caption |-> "Age 80", age |-> "80 Years Old",
       year |-> "2085", call_id |-> None],
      [url |-> <<"", "images", "">>, caption |-> "Age 90", age |-> "90 Years Old",
       year |-> "2095", call_id |-> None] }

ImageLists == UNION {[1..n -> ImageChoices] : n \in 0..MaxImages}

\* The audio references: none, empty, an uploaded file, a file that is not
\* there, a directory.
AudioChoices ==
    {NoPath, <<"">>, UPLOADS_DIR \o <<"song.mp3">>, UPLOADS_DIR \o <<"gone.wav">>, UPLOADS_DIR}

ExitCodes == {0, 1, 2}
ErrorStreams == {"", "render error"}

RenderSteps ==
    \/ \E copyok \in BOOLEAN : RenderCopyImage(copyok)
    \/ RenderStaged
    \/ \E copyok \in BOOLEAN : RenderAudio(copyok)
    \/ \E written \in SaveOutcomes : RenderDescribe(written)
    \/ \E started \in BOOLEAN : RenderLaunch(started)
    \/ \E code \in ExitCodes, stderr \in ErrorStreams, rmok \in BOOLEAN, d \in Durations :
            RenderExit(code, stderr, rmok, d)
    \/ RenderTimeout

\* Timing parameters a caller may pass: the routes' values, and 3.5 s per
\* image with no transition and a 0.5 s text fade.
Timings ==
    {DefaultTiming,
     [duration_per_image |-> 35, transition_duration |-> 0, text_transition_duration |-> 5]}

RenderNext ==
    \/ \E imgs \in ImageLists, audio \in AudioChoices, tm \in Timings :
            RenderStartTimed(imgs, audio, FALSE, tm)
    \/ RenderSteps

\* render_video alone, on records the caller supplies.
SpecRender == Init /\ [][RenderNext]_vars

\* successful_images = [img for img in generated_images if img.url]
SuccessfulImages(list) == SelectSeq(list, LAMBDA img : img.url # <<"">>)

\* dynamic_aging_video: generate(prompt, num_images), then render_video on
\* the records it returned.  Of render_video only staging is listed: no run of
\* the pipeline gets past RenderStaged (see C6), so the later steps are never
\* enabled here; SpecRender covers them.
Next ==
    \/ \E n \in 1..MaxCount : GenStart(n, << >>, 20, 15)
    \/ GenSteps
    \/ \E audio \in AudioChoices :
            /\ gresult = "returned"
            /\ RenderStart(SuccessfulImages(generated_images), audio, TRUE)
    \/ \E copyok \in BOOLEAN : RenderCopyImage(copyok)
    \/ RenderStaged

Spec == Init /\ [][Next]_vars

\* ------------------------------------------------------------ the claims
\* C1 to C5 are checked under SpecGen, C6 under Spec, C7 to C10 under SpecRender.

\* The identifier of the last of the first k calls that succeeded.
RECURSIVE LastGood(_)
LastGood(k) ==
    IF k = 0 THEN None
    ELSE IF calls[k].outcome = "ok" THEN calls[k].id
    ELSE LastGood(k - 1)

GoodCalls == SelectSeq(calls, LAMBDA c : c.outcome = "ok")

\* C1: every continuation call carries the identifier returned by the most
\* recent earlier step of the chain that succeeded; a step that fails or
\* yields no image appends no record and leaves the anchor unchanged.  With
\* three planned ages, step 2 failing and steps 1 and 3 succeeding, the result
\* is [step1, step3] and the call of step 3 references the identifier of step 1.
C1_AnchorIsLastSuccess ==
    /\ \A k \in 1..Len(calls) :
            ~calls[k].is_base =>
                /\ LastGood(k - 1) # None
                /\ calls[k].previous_response_id = LastGood(k - 1)
    /\ \A k \in 1..Len(calls) :
            calls[k].outcome # "ok" =>
                \A j \in 1..Len(generated_images) : generated_images[j].call_id # calls[k].id
    /\ gpc \in {"loop", "sleep"} => previous_response_id = LastGood(Len(calls))
    /\ (/\ gresult = "returned"
        /\ Len(calls) = 3
        /\ calls[1].outcome = "ok" /\ calls[2].outcome # "ok" /\ calls[3].outcome = "ok")
          => /\ Len(generated_images) = 2
             /\ generated_images[1].call_id = calls[1].id
             /\ generated_images[2].call_id = calls[3].id
             /\ calls[3].previous_response_id = calls[1].id

C1_Witness ==
    /\ gresult = "returned"
    /\ Len(calls) = 3
    /\ calls[1].outcome = "ok" /\ calls[2].outcome = "noimage" /\ calls[3].outcome = "ok"
    /\ Len(generated_images) = 2

\* C2: if the base call raises or its response has no image, generate raises,
\* returns no records, issues no continuation call and writes no image file.
C2_BaseFailureIsFatal ==
    (Len(calls) >= 1 /\ calls[1].outcome \in {"raise", "noimage"}) =>
        /\ gpc = "done"
        /\ gresult = "raised"
        /\ generated_images = << >>
        /\ Len(calls) = 1
        /\ fs = InitFs

C2_Witness ==
    /\ Len(calls) = 1
    /\ calls[1].outcome = "noimage"
    /\ gresult = "raised"

C4_RecordsInPlannedOrder ==
    /\ Len(generated_images) = Len(GoodCalls)
    /\ \A j \in 1..Len(GoodCalls) :
            /\ generated_images[j].call_id = GoodCalls[j].id
            /\ generated_images[j].age = AgeLabel(ages[GoodCalls[j].i + 1])
    /\ \A j, k \in 1..Len(GoodCalls) : j < k => GoodCalls[j].i < GoodCalls[k].i

C4_Witness ==
    /\ gresult = "returned"
    /\ ages = <<50, 20, 20>>
    /\ Len(generated_images) = 3
    /\ generated_images[1].age = "50 Years Old"
    /\ generated_images[2].age = "20 Years Old"
    /\ generated_images[3].age = "20 Years Old"

\* C5: a failure to write the image to disk is treated like a failed step:
\* at the base step generate raises; at a continuation step no record is
\* appended and the anchor is not advanced to that call's identifier, so the
\* next call still references the previous known-good identifier.
C5_SaveFailureIsStepFailure ==
    \A k \in 1..Len(calls) :
        calls[k].outcome = "savefail" =>
            /\ calls[k].id # None
            /\ \A j \in 1..Len(generated_images) : generated_images[j].call_id # calls[k].id
            /\ calls[k].is_base =>
                  gpc = "done" /\ gresult = "raised" /\ Len(calls) = 1
            /\ ~calls[k].is_base =>
                  /\ gresult # "raised"
                  /\ k < Len(calls) =>
                        calls[k + 1].previous_response_id = calls[k].previous_response_id
                  /\ (k = Len(calls) /\ gpc = "loop") =>
                        previous_response_id = calls[k].previous_response_id

C5_Witness ==
    /\ Len(calls) = 3
    /\ calls[1].outcome = "ok" /\ calls[2].outcome = "savefail"
    /\ calls[3].previous_response_id = calls[1].id

\* C6: a record returned by generate and passed unchanged to render has a
\* storage reference that render resolves to the file the generator persisted,
\* so the image is not dropped as not found.
C6_GeneratedRecordsAreFound ==
    from_generate =>
        \A j \in 1..Len(staging) :
            /\ SourcePath(images[j].url) = persisted[j]
            /\ staging[j] # "notfound"

\* The audio reference is absent, empty, or names no existing file.
AudioAbsent ==
    \/ audio_file \in {NoPath, <<"">>}
    \/ Resolve(CWD, audio_file) \notin DOMAIN fs

\* No job-descriptor file has been created.
NoDescriptor ==
    /\ props_file_path = NoPath
    /\ \A p \in DOMAIN fs : ~IsPrefix(PROPS_DIR, p)

\* C7: if the audio reference is absent or empty or names no existing file,
\* render fails before the renderer is launched and no job-descriptor file
\* has been created.
C7_MissingAudioFailsEarly ==
    (rpc # "idle" /\ AudioAbsent) =>
        /\ rpc \in {"staging", "audio", "done"}
        /\ launched = 0
        /\ NoDescriptor
        /\ rpc = "done" => rresult.kind = "raised"

C7_Witness ==
    /\ rpc = "done"
    /\ audio_file = UPLOADS_DIR \o <<"gone.wav">>
    /\ Len(photos_data) >= 1
    /\ rresult = Raised(AudioRequiredMsg)

\* The positions of the records that staging kept.
Staged == {j \in 1..Len(staging) : staging[j] = "staged"}

\* Staging is over and no image survived: render failed with the no-valid-
\* images error before staging audio, writing a descriptor or launching.
NoSurvivorFailsEarly ==
    (rpc \notin {"idle", "staging"} /\ Staged = {}) =>
        /\ rpc = "done"
        /\ rresult = Raised(NoValidImagesMsg(0))
        /\ audio_filename = None
        /\ \A p \in DOMAIN fs : ~IsPrefix(PUBLIC_DIR, p)
        /\ NoDescriptor
        /\ launched = 0

\* What staging leaves for the records it kept: the copy in the asset
\* directory and one descriptor each.
StagedAreCopied ==
    /\ Len(photos_data) = Cardinality(Staged)
    /\ \A j \in Staged :
            /\ DestPath(images[j].url) \in DOMAIN fs
            /\ fs[DestPath(images[j].url)] = fs[SourcePath(images[j].url)]

\* C8 as stated: the records dropped are those without a reference or without
\* a source file, all others are staged; with no survivor render fails early.
C8_Original ==
    /\ \A j \in 1..Len(staging) :
            staging[j] = "staged" <=>
                (images[j].url # <<"">> /\ SourcePath(images[j].url) \in DOMAIN fs)
    /\ StagedAreCopied
    /\ NoSurvivorFailsEarly

\* C8, amended: a record is also dropped when copying it raises.
C8_DroppedOrStaged ==
    /\ \A j \in 1..Len(staging) :
            staging[j] = "staged" <=>
                /\ images[j].url # <<"">>
                /\ SourcePath(images[j].url) \in DOMAIN fs
                /\ staging[j] # "raised"
    /\ StagedAreCopied
    /\ NoSurvivorFailsEarly

C8_Witness ==
    /\ rpc = "done"
    /\ Len(images) = 2
    /\ images[1].url = <<"gone.png">>
    /\ images[2].url = <<"">>
    /\ staging = <<"notfound", "empty">>
    /\ rresult = Raised(NoValidImagesMsg(0))

\* C9: when the renderer exits within the timeout, render returns the output
\* path if and only if the exit status is 0; on any other status it fails with
\* an error that carries the text of the error stream.
C9_ExitStatusDecides ==
    (rpc = "done" /\ proc.kind = "exit") =>
        /\ rresult.kind = "returned" <=> proc.code = 0
        /\ rresult.kind = "returned" => rresult.value = output_path
        /\ proc.code # 0 => rresult = Raised(<<"Remotion render failed: ", proc.stderr>>)

C9_Witness ==
    /\ rpc = "done"
    /\ proc.kind = "exit"
    /\ proc.code = 2
    /\ proc.stderr = "render error"
    /\ rresult.kind = "raised"

\* C10 as stated: whenever the renderer exits, the job-descriptor file no
\* longer exists when render returns or raises.
C10_Original ==
    (rpc = "done" /\ proc.kind = "exit") => props_file_path \notin DOMAIN fs

\* C10, amended: the file is gone unless the removal itself failed.
C10_DescriptorRemovedUnlessRemovalFails ==
    (rpc = "done" /\ proc.kind = "exit") =>
        (props_file_path \in DOMAIN fs => ~proc.rmok)

C10_Witness ==
    /\ rpc = "done"
    /\ proc.kind = "exit"
    /\ proc.code = 1
    /\ proc.rmok
    /\ props_file_path # NoPath
    /\ props_file_path \notin DOMAIN fs

\* ---------------------------------------------------------------------------
\* C11: when the renderer subprocess runs past its budget, render_video fails
\* with the timeout message, the message names the budget that was handed to
\* the subprocess, and the job-descriptor file written for the job is still
\* in place with its content.
C11_TimeoutNamesBudgetKeepsDescriptor ==
    (rpc = "done" /\ proc.kind = "timeout") =>
        /\ rresult.kind = "raised"
        /\ rresult.value[1] = "Video rendering timed out after "
        /\ rresult.value[2] = ToString(estimated_timeout)
        /\ estimated_timeout = EstimatedTimeout(Len(photos_data))
        /\ launched = 1
        /\ props_file_path \in DOMAIN fs
        /\ fs[props_file_path].images = photos_data

C11_Witness ==
    /\ rpc = "done"
    /\ proc.kind = "timeout"
    /\ Len(photos_data) = 2
    /\ estimated_timeout = 180
    /\ rresult = Raised(TimeoutMsg(180))
    /\ props_file_path \in DOMAIN fs

\* ---------------------------------------------------------------------------
\* One server process (run_server.py: one worker, one event loop) serving a
\* generate request and a render request on records the caller supplies.
\* generate gives up the loop only in its pause between steps; render_video
\* never awaits, so it runs from start to end without generate moving.
ServerImageLists ==
    {<<img>> : img \in {c \in ImageChoices : c.url \in {<<"old.png">>, <<"gone.png">>}}}

ServerAudio == {NoPath, UPLOADS_DIR \o <<"song.mp3">>}

RenderQuiet == rpc \in {"idle", "done"}

GenerateYielded == gpc \in {"idle", "sleep", "done"}

ServerNext ==
    \/ \E n \in 1..MaxCount : RenderQuiet /\ GenStart(n, << >>, 20, 15)
    \/ RenderQuiet /\ GenSteps
    \/ \E imgs \in ServerImageLists, audio \in ServerAudio :
            GenerateYielded /\ RenderStart(imgs, audio, FALSE)
    \/ RenderSteps

SpecServer == Init /\ [][ServerNext]_vars

\* ---------------------------------------------------------------------------
\* C12: nothing is retried. Within one generate call the API is asked at most
\* once for each planned position, in plan order; within one render call the
\* renderer is launched at most once, and a renderer that exits non-zero or
\* times out ends the call in failure.
RenderFailed ==
    \/ proc.kind = "timeout"
    \/ proc.kind = "exit" /\ proc.code # 0

C12_NothingRetried ==
    /\ Len(calls) <= Len(ages)
    /\ \A j, k \in 1..Len(calls) : j < k => calls[j].i < calls[k].i
    /\ launched <= 1
    /\ RenderFailed => (rpc = "done" /\ rresult.kind = "raised" /\ launched = 1)

C12_Witness ==
    /\ gpc = "done"
    /\ gresult = "returned"
    /\ Len(calls) = 3
    /\ \E k \in 1..Len(calls) : calls[k].outcome # "ok"
    /\ RenderFailed
    /\ rpc = "done"

\* ---------------------------------------------------------------------------
\* Render calls one after another on the same server: render_video never
\* awaits, so a second request is served only when the first call has ended.
\* What the ended call staged is kept in `finished`.
MaxJobs == 2

JobSummary ==
    [video_id |-> video_id,
     audio_filename |-> audio_filename,
     image_paths |-> {DestPath(images[j].url) :
                        j \in {k \in 1..Len(staging) : staging[k] = "staged"}},
     failed |-> rresult.kind = "raised"]

RenderAgain(d) ==
    /\ rpc = "done"
    /\ Len(finished) + 1 < MaxJobs
    /\ finished' = Append(finished, JobSummary)
    /\ now' = Later(d)
    /\ rpc' = "idle"
    /\ images' = << >>
    /\ audio_file' = NoPath
    /\ from_generate' = FALSE
    /\ video_id' = None
    /\ ri' = 1
    /\ photos_data' = << >>
    /\ audio_filename' = None
    /\ props_file_path' = NoPath
    /\ output_path' = NoPath
    /\ estimated_timeout' = 0
    /\ launched' = 0
    /\ proc' = [kind |-> "none", code |-> 0, stderr |-> "", rmok |-> TRUE]
    /\ staging' = << >>
    /\ rresult' = [kind |-> "none", value |-> << >>]
    /\ duration_log' = None
    /\ UNCHANGED <<fs, nextId, uuids, gvars, plan_in, regens, prompt, timing, conversions, uploaded>>

JobImageLists ==
    {<<img>> : img \in {c \in ImageChoices :
                            c.url \in {<<"old.png">>, <<"", "images", "old2.png">>}}}

JobsNext ==
    \/ \E imgs \in JobImageLists, audio \in ServerAudio : RenderStart(imgs, audio, FALSE)
    \/ RenderSteps
    \/ \E d \in Durations : RenderAgain(d)

SpecJobs == Init /\ [][JobsNext]_vars

\* ---------------------------------------------------------------------------
\* C13: a render call stages its audio under custom_audio_<token><original
\* extension>, and no two render calls, the second coming right after the
\* first included, stage audio under the same filename.
AudioNamesOfJobs ==
    [j \in 1..(Len(finished) + 1) |->
        IF j <= Len(finished) THEN finished[j].audio_filename ELSE audio_filename]

C13_AudioNameIsPerJob ==
    /\ audio_filename # None =>
            audio_filename = "custom_audio_" \o video_id \o SplitExt(audio_file[Len(audio_file)])
    /\ \A j, k \in DOMAIN AudioNamesOfJobs :
            (j < k /\ AudioNamesOfJobs[j] # None /\ AudioNamesOfJobs[k] # None) =>
                AudioNamesOfJobs[j] # AudioNamesOfJobs[k]

\* ---------------------------------------------------------------------------
\* C16: the image files a render call stages in the renderer's asset
\* directory are its own: no path one call staged an image under is a path
\* another call stages an image under.
ImagePathsOfJobs ==
    [j \in 1..(Len(finished) + 1) |->
        IF j <= Len(finished) THEN finished[j].image_paths ELSE JobSummary.image_paths]

C16_StagedImagePathsArePerJob ==
    \A j, k \in DOMAIN ImagePathsOfJobs :
        j < k => ImagePathsOfJobs[j] \cap ImagePathsOfJobs[k] = {}

\* ---------------------------------------------------------------------------
\* regenerate_single_image: one call is one step, the save included (the only
\* await is on _save_base64_image, which never suspends).
MaxRegens == 2

RegenFilename(age, t) == "regen_age_" \o ToString(age) \o "_" \o ToString(t) \o ".png"

\* is_base=(base_call_id is None)
RegenPromptIsBase(base_call_id) == base_call_id = None

\* `if base_call_id and age > 20`: None and the empty string are both falsy
RegenContinues(age, base_call_id) == base_call_id \notin {None, ""} /\ age > 20

RegenRaisesOnApiError(api, saved) == api = "raise"

\* `except Exception as e: ... return None` (221-223); nothing after it raises
RegenRaises(api, saved) == FALSE

Regen(age, base_call_id, api, saved, d) ==
    /\ Len(regens) < MaxRegens
    /\ LET id == IF api = "raise" THEN None ELSE ResponseId(nextId)
           t == Later(d)
           filename == RegenFilename(age, t)
           ok == StepSucceeds(api, saved)
           call == [age |-> age, base_call_id |-> base_call_id,
                    is_base |-> RegenPromptIsBase(base_call_id), age_difference |-> 0,
                    input |-> CreateSafePrompt(prompt, age, RegenPromptIsBase(base_call_id), 0),
                    raised |-> RegenRaises(api, saved),
                    previous_response_id |->
                        IF RegenContinues(age, base_call_id) THEN base_call_id ELSE None,
                    outcome |-> StepOutcome(api, saved), id |-> id,
                    path |-> SavePath(filename),
                    returned |->
                        IF ok
                        THEN <<GeneratedImage(SavedUrl(filename, saved), age, "2025", id)>>
                        ELSE << >>]
       IN /\ now' = t
          /\ nextId' = IF api = "raise" THEN nextId ELSE nextId + 1
          /\ fs' = IF api = "image" THEN SaveEffect(fs, filename, id, saved) ELSE fs
          /\ regens' = Append(regens, call)
    /\ UNCHANGED <<uuids, gvars, rvars, plan_in, finished, prompt, duration_log, timing, conversions, uploaded>>

RegenAges == {20, 40}

RegenAnchors == {None, "", ResponseId(0)}

RegenNext ==
    \E age \in RegenAges, base_call_id \in RegenAnchors,
       api \in ApiOutcomes, saved \in SaveOutcomes, d \in Durations :
            Regen(age, base_call_id, api, saved, d)

SpecRegen == Init /\ [][RegenNext]_vars

\* ---------------------------------------------------------------------------
\* C14: two calls of regenerate_single_image with the same age and the same
\* base call id that both return a record return records with different
\* storage references, and the second call writes a file other than the
\* first's, however little time lies between them.
C14_RegeneratedFilesAreDistinct ==
    \A j, k \in 1..Len(regens) :
        (/\ j < k
         /\ regens[j].returned # << >>
         /\ regens[k].returned # << >>
         /\ regens[j].age = regens[k].age
         /\ regens[j].base_call_id = regens[k].base_call_id) =>
            /\ regens[j].returned[1].url # regens[k].returned[1].url
            /\ regens[j].path # regens[k].path

\* ---------------------------------------------------------------------------
\* C15: every image generate persists is written under a filename no other
\* persisted image of the chain has, duplicate explicit ages included, so no
\* later step overwrites a file an earlier step persisted.
C15_PersistedFilesAreDistinct ==
    \A j, k \in 1..Len(persisted) : j < k => persisted[j] # persisted[k]

\* ---------------------------------------------------------------------------
\* The age plan alone: generate is entered with arguments drawn from the sets
\* below and computes its plan; the chain is not run.
MaxPlanCount == 12

PlanCounts == 0..MaxPlanCount

PlanStartGaps == {<<20, 15>>, <<0, 0>>, <<0, 10>>, <<30, 0>>, <<40, 10>>}

PlanNext ==
    \E n \in PlanCounts, custom \in CustomAges, sg \in PlanStartGaps :
        GenStart(n, custom, sg[1], sg[2])

SpecPlan == Init /\ [][PlanNext]_vars

\* ---------------------------------------------------------------------------
\* The plan of a generate call has been computed.
Planned == gpc # "idle"

\* generate(prompt, count): no explicit ages, start and gap left to their
\* defaults of 20 and 15.
OnlyCountGiven ==
    /\ plan_in.custom = << >>
    /\ plan_in.starting_age = 20
    /\ plan_in.age_gap = 15

\* C17: a generate call given only a count of 1..9 plans the ages of the
\* fixed table for that count.
C17_OnlyCountUsesTable ==
    (Planned /\ OnlyCountGiven /\ num_images \in 1..9) => ages = AgeTable(num_images)

\* C18: with no explicit ages, any start age >= 0 and age gap >= 0, zero
\* included, give the plan start_age + i * age_gap for i = 0..count-1.
C18_ArithmeticPlanForAnyStartGap ==
    (Planned /\ plan_in.custom = << >>) =>
        ages = [k \in 1..num_images |-> plan_in.starting_age + (k - 1) * plan_in.age_gap]

\* C19: explicit ages are the plan as given, whatever start and gap are; when
\* the list is as long as the count, the plan has count steps and a call
\* that returns has asked the API once for each of them.
C19_ExplicitAgesVerbatim ==
    (Planned /\ plan_in.custom # << >>) =>
        /\ ages = plan_in.custom
        /\ Len(plan_in.custom) = num_images =>
                /\ Len(ages) = num_images
                /\ gresult = "returned" => Len(calls) = num_images

C19_Witness ==
    /\ gresult = "returned"
    /\ plan_in = [custom |-> <<50, 20, 20>>, starting_age |-> 20, age_gap |-> 15]
    /\ num_images = 3
    /\ ages = <<50, 20, 20>>
    /\ Len(calls) = 3

\* C20: a generate call given only a count of 10 or more plans the ages
\* 20 + floor(i * 70 / (count - 1)) for i = 0..count-1: count ages, never
\* decreasing, the first 20 and the last 90.
C20_OnlyCountSpreadsEvenly ==
    (Planned /\ OnlyCountGiven /\ num_images >= 10) =>
        /\ ages = [k \in 1..num_images |-> 20 + ((k - 1) * 70) \div (num_images - 1)]
        /\ Len(ages) = num_images
        /\ \A k \in 1..(Len(ages) - 1) : ages[k] <= ages[k + 1]
        /\ ages[1] = 20
        /\ ages[Len(ages)] = 90

\* ---------------------------------------------------------------------------
\* render_video on lists of up to MaxStaged records of an existing image, any
\* of which may fail to copy, up to the point where the subprocess runs out
\* of its budget.
MaxStaged == 10

ManyImages(n) ==
    [k \in 1..n |-> [url |-> <<"old.png">>, caption |-> "Age 20", age |-> "20 Years Old",
                     year |-> "2025", call_id |-> None]]

TimingNext ==
    \/ \E n \in 1..MaxStaged :
            RenderStart(ManyImages(n), UPLOADS_DIR \o <<"song.mp3">>, FALSE)
    \/ \E copyok \in BOOLEAN : RenderCopyImage(copyok)
    \/ RenderStaged
    \/ RenderAudio(TRUE)
    \/ RenderDescribe("ok")
    \/ RenderLaunch(TRUE)
    \/ RenderTimeout

SpecTiming == Init /\ [][TimingNext]_vars

\* ---------------------------------------------------------------------------
\* C21: with n >= 1 images staged, the timeout the subprocess is run with is
\* min(120 + 30 * n, 300) seconds: 150 for one image, 300 from six images
\* on, never under 120 nor over 300, and no smaller than for fewer images.
C21_TimeoutIsCappedLinear ==
    rpc \in {"launch", "rendering"} =>
        LET n == Len(photos_data)
            budget(m) == IF 120 + 30 * m < 300 THEN 120 + 30 * m ELSE 300
        IN /\ n >= 1
           /\ estimated_timeout = budget(n)
           /\ n = 1 => estimated_timeout = 150
           /\ n >= 6 => estimated_timeout = 300
           /\ estimated_timeout >= 120
           /\ estimated_timeout <= 300
           /\ \A m \in 1..n : budget(m) <= estimated_timeout

C21_Witness ==
    /\ rpc = "rendering"
    /\ Len(photos_data) = 10
    /\ estimated_timeout = 300

\* ---------------------------------------------------------------------------
\* C22: the video length render_video computes is n * 2.0 + (n - 1) * 0.5
\* seconds, n being the number of images that were staged, not the number
\* passed in; three staged images give 7.0.
C22_ExpectedDurationOfStaged ==
    duration_log # None =>
        LET n == Cardinality({k \in 1..Len(staging) : staging[k] = "staged"})
            tenths == n * 20 + (n - 1) * 5
        IN /\ n = Len(photos_data)
           /\ duration_log = ToString(tenths \div 10) \o "." \o ToString(tenths % 10)
           /\ n = 3 => duration_log = "7.0"

C22_Witness ==
    /\ Len(images) = 4
    /\ Len(photos_data) = 3
    /\ duration_log = "7.0"

\* ---------------------------------------------------------------------------
\* The prompts composed for texts of up to MaxLen pieces, padded with
\* whitespace or not: one generate call with the start age 30, or calls of
\* regenerate_single_image, on each text.
MaxLen == 3

PromptPieces == {" ", "a smiling woman"}

PromptTexts == UNION {[1..n -> PromptPieces] : n \in 0..MaxLen}

InitPrompt == \E p \in PromptTexts : InitWith(p)

PromptNext ==
    \/ \E n \in 1..MaxCount : regens = << >> /\ GenStart(n, << >>, 30, 15)
    \/ GenSteps
    \/ \E base_call_id \in RegenAnchors, api \in ApiOutcomes :
            gpc = "idle" /\ Regen(30, base_call_id, api, "ok", 0)

SpecPrompt == InitPrompt /\ [][PromptNext]_vars

\* ---------------------------------------------------------------------------
\* The prompts composed so far, by generate and by regenerate_single_image.
ComposedPrompts ==
    {calls[k].input : k \in 1..Len(calls)} \cup {regens[k].input : k \in 1..Len(regens)}

\* t is s without its leading and trailing whitespace.
IsTrimOf(t, s) ==
    \E i \in 1..(Len(s) + 1), j \in 0..Len(s) :
        /\ t = SubSeq(s, i, j)
        /\ \A k \in 1..(i - 1) : s[k] \in Whitespace
        /\ \A k \in (j + 1)..Len(s) : s[k] \in Whitespace
        /\ t # << >> => (t[1] \notin Whitespace /\ t[Len(t)] \notin Whitespace)

\* C23: every composed prompt starts with the caller's text exactly as sent,
\* leading and trailing whitespace included.
C23_Original ==
    \A input \in ComposedPrompts : IsPrefix(prompt, input)

\* C23, amended: every composed prompt starts with the caller's text without
\* its leading and trailing whitespace, the rest of it unchanged and in order.
C23_TrimmedTextIsPrefix ==
    \A input \in ComposedPrompts :
        \E t \in {SubSeq(prompt, i, j) : i \in 1..(Len(prompt) + 1), j \in 0..Len(prompt)} :
            IsTrimOf(t, prompt) /\ IsPrefix(t, input)

C23_Witness ==
    /\ prompt = <<" ", "a smiling woman", " ">>
    /\ \E k \in 1..Len(calls) :
            ~calls[k].is_base /\ IsPrefix(<<"a smiling woman", ", same person but ">>, calls[k].input)
    /\ \E k \in 1..Len(calls) :
            calls[k].is_base /\ IsPrefix(<<"a smiling woman", ", person aged ">>, calls[k].input)

\* C24: the composed prompt is the trimmed text followed by
\* ", person aged {age} years old, natural lighting, high quality" for a base
\* prompt and by ", same person but {age_delta} years older (now aged {age}),
\* natural aging progression, natural lighting, high quality" for a
\* progression prompt, and by nothing else.
ClaimedPrompt(t, c) ==
    IF c.is_base
    THEN t \o <<", person aged ", ToString(c.age),
                " years old, natural lighting, high quality">>
    ELSE t \o <<", same person but ", ToString(c.age_difference),
                " years older (now aged ", ToString(c.age),
                "), natural aging progression, natural lighting, high quality">>

ComposedCalls ==
    {[is_base |-> calls[k].is_base, age |-> calls[k].age,
      age_difference |-> calls[k].age_difference, input |-> calls[k].input] :
        k \in 1..Len(calls)}
    \cup
    {[is_base |-> regens[k].is_base, age |-> regens[k].age,
      age_difference |-> regens[k].age_difference, input |-> regens[k].input] :
        k \in 1..Len(regens)}

C24_PromptIsTrimmedTextPlusTemplate ==
    \A c \in ComposedCalls :
        \E t \in {SubSeq(prompt, i, j) : i \in 1..(Len(prompt) + 1), j \in 0..Len(prompt)} :
            IsTrimOf(t, prompt) /\ c.input = ClaimedPrompt(t, c)

C24_Witness ==
    /\ prompt = <<"a smiling woman", " ">>
    /\ \E k \in 1..Len(calls) :
            calls[k].input = <<"a smiling woman", ", person aged ", "30",
                               " years old, natural lighting, high quality">>
    /\ \E k \in 1..Len(calls) :
            calls[k].input = <<"a smiling woman", ", same person but ", "15",
                               " years older (now aged ", "45",
                               "), natural aging progression, natural lighting, high quality">>

\* ---------------------------------------------------------------------------
\* The review flow: a chain is generated (test_generate_images, with the
\* default plan or with explicit ages), then single ages of it are
\* regenerated (regenerate_image), with or without the call id of the
\* chain's first record as base anchor.
ReviewAges == {<<30, 45>>}

ReviewAnchors ==
    IF generated_images = << >> THEN {None} ELSE {None, generated_images[1].call_id}

ReviewNext ==
    \/ \E n \in 1..MaxCount : GenStart(n, << >>, 20, 15)
    \/ \E custom \in ReviewAges : GenStart(Len(custom), custom, 20, 15)
    \/ GenSteps
    \/ \E k \in 1..Len(ages), base_call_id \in ReviewAnchors, api \in ApiOutcomes :
            gresult = "returned" /\ Regen(ages[k], base_call_id, api, "ok", 0)

SpecReview == Init /\ [][ReviewNext]_vars

\* ---------------------------------------------------------------------------
\* C25: regenerate_single_image issues a continuation call, referencing the
\* base anchor it was given, exactly when it was given one and the age asked
\* for is not the youngest of the chain's ages; otherwise it issues a call
\* with no continuation identifier.
YoungestAge == CHOOSE a \in {ages[k] : k \in 1..Len(ages)} :
                    \A k \in 1..Len(ages) : a <= ages[k]

C25_ContinuationIffAnchorAndNotYoungest ==
    \A k \in 1..Len(regens) :
        IF regens[k].base_call_id # None /\ regens[k].age # YoungestAge
        THEN regens[k].previous_response_id = regens[k].base_call_id
        ELSE regens[k].previous_response_id = None

\* ---------------------------------------------------------------------------
\* C26: regenerate_single_image does not raise when generation fails: a call
\* whose API request raised or whose response held no image returns None and
\* leaves the files as they were, and a record is returned only for an image
\* that was returned and written to its file.
C26_RegenFailureIsNone ==
    /\ [](\A k \in 1..Len(regens) :
            /\ ~regens[k].raised
            /\ regens[k].outcome \in {"raise", "noimage"} => regens[k].returned = << >>
            /\ regens[k].returned # << >> =>
                    /\ regens[k].outcome = "ok"
                    /\ regens[k].path \in DOMAIN fs
                    /\ regens[k].returned[1].call_id = regens[k].id)
    /\ [][(/\ Len(regens') = Len(regens) + 1
           /\ regens'[Len(regens')].outcome \in {"raise", "noimage"}) => fs' = fs]_vars

C26_Witness ==
    /\ Len(regens) = 2
    /\ regens[1].outcome = "raise"
    /\ regens[1].returned = << >>
    /\ regens[2].outcome = "noimage"
    /\ regens[2].returned = << >>
    /\ fs = InitFs

\* ---------------------------------------------------------------------------
\* C27: a render call goes through staging (images, then audio), describing
\* and rendering in that order and never back; it ends succeeded, failed or
\* timed out, one of the three, and stays ended.  When the renderer is
\* launched every record has been through staging, the audio is staged and
\* the descriptor is written; a call that fails on a precondition ends
\* failed without the renderer having been launched.
RenderRank ==
    [pc \in {"idle", "staging", "audio", "describing", "launch", "rendering", "done"} |->
        CASE pc = "idle" -> 0
          [] pc \in {"staging", "audio"} -> 1
          [] pc \in {"describing", "launch"} -> 2
          [] pc = "rendering" -> 3
          [] pc = "done" -> 4]

Succeeded == rresult.kind = "returned"
TimedOut == rresult.kind = "raised" /\ proc.kind = "timeout"
Failed == rresult.kind = "raised" /\ proc.kind # "timeout"

C27_RenderStagesInOrder ==
    /\ [](/\ rpc # "done" => rresult.kind = "none"
          /\ rpc = "done" =>
                /\ Succeeded \/ TimedOut \/ Failed
                /\ ~(Succeeded /\ TimedOut) /\ ~(Succeeded /\ Failed) /\ ~(TimedOut /\ Failed)
                /\ (Succeeded \/ TimedOut) => launched = 1
                /\ Succeeded => (proc.kind = "exit" /\ proc.code = 0)
                /\ proc.kind = "none" => (Failed /\ launched <= 1)
          /\ (launched >= 1 \/ rpc = "launch") =>
                /\ ri > Len(images)
                /\ photos_data # << >>
                /\ audio_filename # None
                /\ props_file_path # NoPath
          /\ rpc = "rendering" =>
                /\ props_file_path \in DOMAIN fs
                /\ (PUBLIC_DIR \o <<audio_filename>>) \in DOMAIN fs
                /\ \A j \in 1..Len(staging) :
                        staging[j] = "staged" => DestPath(images[j].url) \in DOMAIN fs
          /\ (rpc = "done" /\ (photos_data = << >> \/ audio_filename = None)) =>
                (Failed /\ launched = 0))
    /\ [][/\ RenderRank[rpc'] >= RenderRank[rpc]
          /\ rpc = "done" => UNCHANGED rvars]_vars

C27_Witness ==
    /\ rpc = "done"
    /\ Succeeded
    /\ launched = 1
    /\ Len(images) = 2
    /\ Len(photos_data) = 1
    /\ output_path \in DOMAIN fs

\* ---------------------------------------------------------------------------
\* A chain beside other chains on the same server.  The other chains use the
\* same API client and clock; they get to run only while this chain is
\* suspended in its pause, or before it starts or after it ends, and each of
\* their calls takes a response identifier.
MaxForeign == 2

\* The response identifiers this chain's calls were given.
OwnIds == {calls[k].id : k \in 1..Len(calls)} \ {None}

OtherChainCall(d) ==
    /\ gpc \in {"idle", "sleep", "done"}
    /\ (nextId - 1) - Cardinality(OwnIds) < MaxForeign
    /\ nextId' = nextId + 1
    /\ now' = Later(d)
    /\ UNCHANGED <<fs, uuids, gvars, rvars, hvars>>

ChainsNext ==
    \/ \E n \in 1..MaxCount, custom \in CustomAges : GenStart(n, custom, 20, 15)
    \/ GenSteps
    \/ \E d \in Durations : OtherChainCall(d)

SpecChains == Init /\ [][ChainsNext]_vars

\* ---------------------------------------------------------------------------
\* C28: the calls of a chain are issued one after another in plan order; the
\* first carries no continuation identifier, and every later one carries one
\* identifier, which an earlier call of this same chain was given, never one
\* given to another chain running beside it.
C28_ChainCallsAreSequential ==
    /\ [](\A k \in 1..Len(calls) :
            /\ k = 1 => (calls[k].i = 0 /\ calls[k].previous_response_id = None)
            /\ k > 1 =>
                /\ calls[k].i > calls[k - 1].i
                /\ calls[k].previous_response_id # None
                /\ \E j \in 1..(k - 1) : calls[j].id = calls[k].previous_response_id)
    /\ [][/\ Len(calls') \in {Len(calls), Len(calls) + 1}
          /\ SubSeq(calls', 1, Len(calls)) = calls]_vars

C28_Witness ==
    /\ Len(calls) = 3
    /\ calls[1].id = ResponseId(2)
    /\ calls[2].id = ResponseId(3)
    /\ calls[3].previous_response_id = ResponseId(3)
    /\ calls[3].id = ResponseId(5)

\* ---------------------------------------------------------------------------
\* C29: the age delta in the prompt of the continuation step at plan position
\* i is the planned age at i minus the planned age at i-1, also when the
\* step at i-1 produced nothing and the call refers to the image of an
\* earlier position.
C29_DeltaFromPreviousPlannedAge ==
    \A k \in 1..Len(calls) :
        calls[k].i >= 1 =>
            LET delta == ages[calls[k].i + 1] - ages[calls[k].i]
            IN /\ calls[k].age = ages[calls[k].i + 1]
               /\ calls[k].age_difference = delta
               /\ ~calls[k].is_base
               /\ calls[k].input[Len(calls[k].input) - 4] = ", same person but "
               /\ calls[k].input[Len(calls[k].input) - 3] = ToString(delta)

C29_Witness ==
    /\ ages = <<20, 35, 50>>
    /\ Len(calls) = 3
    /\ calls[2].outcome # "ok"
    /\ calls[3].previous_response_id = calls[1].id
    /\ calls[3].age_difference = 15
    /\ calls[3].age = 50

\* ---------------------------------------------------------------------------
\* C30: in the continuation loop the pause is taken after a step exactly when
\* the step succeeded; after a step that raised, returned no image or was not
\* persisted, the call for the next planned age follows with no pause.
C30_PauseIffStepSucceeded ==
    /\ \A k \in 1..Len(calls) :
            calls[k].i >= 1 =>
                LET paused == \E j \in 1..Len(slept) : slept[j] = calls[k].i
                    pausing == k = Len(calls) /\ gpc = "sleep"
                IN /\ calls[k].outcome = "ok" => (paused \/ pausing)
                   /\ calls[k].outcome # "ok" => (~paused /\ ~pausing)
    /\ \A j \in 1..Len(slept) : \E k \in 1..Len(calls) : calls[k].i = slept[j] /\ slept[j] >= 1

C30_Witness ==
    /\ Len(calls) = 3
    /\ calls[2].outcome = "ok"
    /\ calls[3].outcome = "savefail"
    /\ slept = <<1>>
    /\ gpc = "done"

\* ---------------------------------------------------------------------------
\* C31: the descriptor render_video writes lists the images that were staged
\* and no others, in the order they were passed in, each with the keys year,
\* age and image, image being "images/<name>" of the staged copy; it names
\* the staged audio by its filename and carries the three timing parameters
\* as they were passed.
StagedPositions ==
    SelectSeq([j \in 1..Len(images) |-> j], LAMBDA j : staging[j] = "staged")

C31_DescriptorListsStagedImages ==
    rpc \in {"launch", "rendering"} =>
        LET d == fs[props_file_path]
        IN /\ Len(d.images) = Len(StagedPositions)
           /\ \A k \in 1..Len(d.images) :
                LET img == images[StagedPositions[k]]
                IN /\ DOMAIN d.images[k] = {"year", "age", "image"}
                   /\ d.images[k].age = img.age
                   /\ d.images[k].year \in {img.year, "Age " \o img.age}
                   /\ d.images[k].image[1] = "images"
                   /\ PUBLIC_DIR \o d.images[k].image = DestPath(img.url)
                   /\ (PUBLIC_DIR \o d.images[k].image) \in DOMAIN fs
           /\ d.audioFile = audio_filename
           /\ (PUBLIC_DIR \o <<d.audioFile>>) \in DOMAIN fs
           /\ d.durationPerImage = timing.duration_per_image
           /\ d.transitionDuration = timing.transition_duration
           /\ d.textTransitionDuration = timing.text_transition_duration

C31_Witness ==
    /\ rpc = "rendering"
    /\ Len(images) = 2
    /\ staging = <<"notfound", "staged">>
    /\ images[2].url = <<"", "images", "old2.png">>
    /\ fs[props_file_path].images = <<[year |-> "Age 40", age |-> "40",
                                      image |-> <<"images", "old2.png">>]>>
    /\ fs[props_file_path].durationPerImage = 35

\* The audio processor on its own: conversions of a stored file and of a
\* missing one, and uploads of every kind.
ConversionInputs == {UPLOADS_DIR \o <<"song.mp3">>, UPLOADS_DIR \o <<"gone.wav">>}

ConversionTargets == {"out.mp3", "second.mp3"}

UploadNames == {"", "dummy.mp3", "voice.wav", "VOICE.MP3", "notes.txt", "voice"}

UploadContents == {"", "pcm", "huge"}

UploadPrefixes == {"audio", "render_1"}

AudioNext ==
    \/ \E input_path \in ConversionInputs, output_filename \in ConversionTargets,
          e \in ConversionRuns : Convert(input_path, output_filename, e)
    \/ \E filename \in UploadNames, content \in UploadContents,
          file_prefix \in UploadPrefixes, require_audio \in BOOLEAN,
          validate_and_convert \in BOOLEAN :
            \E r \in UploadRuns(filename, content, validate_and_convert) :
                Upload(filename, content, file_prefix, require_audio, validate_and_convert, r)

SpecAudio == Init /\ [][AudioNext]_vars

\* ---------------------------------------------------------------------------
\* C32: convert_to_mp3 copies the input to the target name whenever ffmpeg is
\* not installed, times out or exits non-zero, and then returns the target
\* path; it returns no path only when the input is missing or unreadable or
\* when the copy fails.
Usable(c) == c.present /\ c.run.readable

CopyEndedWell(c) ==
    \/ c.run.copy1 = "ok"
    \/ c.run.transcoder = "nonzero" /\ c.run.copy2 = "ok"

\* As stated: the only ways to get no path are a missing or unreadable input
\* and a failed copy. Violated by a run of ffmpeg that exits 0 and leaves no
\* target file (101-107).
C32_Original ==
    \A k \in 1..Len(conversions) :
        LET c == conversions[k]
        IN /\ (Usable(c) /\ c.run.transcoder \in {"not_installed", "timeout", "nonzero"}
                    /\ CopyEndedWell(c))
                => (c.returned = c.output_path /\ c.target = c.source)
           /\ c.returned = NoPath =>
                \/ ~Usable(c)
                \/ (c.run.transcoder \in {"not_installed", "timeout", "nonzero"}
                        /\ ~CopyEndedWell(c))

\* Amended: no path is returned exactly when the input is missing or
\* unreadable, when ffmpeg exits 0 and the target does not exist, or when the
\* fallback copy fails (after a non-zero exit the copy is tried twice); a
\* fallback copy that ends well leaves the input's bytes under the target name
\* and the target path is returned.
C32_NoPathIffUnusableNoOutputOrCopyFailed ==
    \A k \in 1..Len(conversions) :
        LET c == conversions[k]
            fallback == c.run.transcoder \in {"not_installed", "timeout", "nonzero"}
        IN /\ (Usable(c) /\ fallback /\ CopyEndedWell(c))
                => (c.returned = c.output_path /\ c.target = c.source)
           /\ c.returned = NoPath <=>
                \/ ~Usable(c)
                \/ c.run.transcoder = "no_output" /\ c.target = None
                \/ fallback /\ ~CopyEndedWell(c)
           /\ c.returned \in {NoPath, c.output_path}

C32_Witness ==
    \E k \in 1..Len(conversions) :
        LET c == conversions[k]
        IN /\ c.run.transcoder = "timeout"
           /\ c.run.wrote
           /\ c.run.copy1 = "ok"
           /\ c.returned = UPLOADS_DIR \o <<"out.mp3">>
           /\ c.target = "audio song"

\* ---------------------------------------------------------------------------
\* C33: in regenerate_single_image the framing of the prompt matches the kind
\* of call: the base framing is used exactly when the call carries no
\* previous_response_id, the progression framing exactly when the call refers
\* to the base anchor.
C33_FramingMatchesCall ==
    \A k \in 1..Len(regens) :
        LET r == regens[k]
        IN /\ r.is_base <=> r.previous_response_id = None
           /\ (r.input = CreateSafePrompt(prompt, r.age, TRUE, 0))
                <=> r.previous_response_id = None
           /\ (r.input = CreateSafePrompt(prompt, r.age, FALSE, 0))
                <=> r.previous_response_id = r.base_call_id

\* ---------------------------------------------------------------------------
\* C34: a call of render_video that fails because the audio reference is
\* missing leaves the filesystem as it found it: no image in public/images,
\* no audio in public, no descriptor.
C34_MissingAudioLeavesFilesystemUnchanged ==
    (rpc = "done" /\ rresult = Raised(AudioRequiredMsg)) =>
        /\ fs = InitFs
        /\ \A p \in DOMAIN fs : ~IsPrefix(PUBLIC_DIR, p)
        /\ NoDescriptor

\* ---------------------------------------------------------------------------
\* C35: render_video never removes what it staged. However the call ends once
\* the audio was staged (success, failed process, timeout, descriptor not
\* written), the staged audio and the staged images are still in the
\* renderer's public directory; and the only file a step of render_video
\* ever deletes is the job descriptor.
StagedFilesPresent ==
    /\ (PUBLIC_DIR \o <<audio_filename>>) \in DOMAIN fs
    /\ \A j \in 1..Len(staging) :
            staging[j] = "staged" => DestPath(images[j].url) \in DOMAIN fs

C35_StagedFilesAreKept ==
    /\ [](rpc = "done" /\ audio_filename # None => StagedFilesPresent)
    /\ [][(DOMAIN fs) \ (DOMAIN fs') \subseteq {props_file_path}]_vars

C35_Witness ==
    /\ rpc = "done"
    /\ proc.kind = "exit"
    /\ proc.code = 1
    /\ props_file_path # NoPath
    /\ props_file_path \notin DOMAIN fs
    /\ Len(photos_data) = 2
    /\ StagedFilesPresent

\* ---------------------------------------------------------------------------
\* The server under the scheduling the code relies on: a call that has been
\* started is run on by the event loop, every API call returns or raises and
\* the renderer subprocess exits or is stopped at its timeout. Whether and
\* when a request arrives is up to the callers.
\* Every step of generate and of render_video moves its position.
Position == <<gpc, gi, rpc, ri>>

SpecServerFair ==
    /\ Init
    /\ [][ServerNext]_vars
    /\ WF_Position(RenderQuiet /\ GenSteps)
    /\ WF_Position(RenderSteps)

\* C36: a generate call that was started ends, and so does a render call. At
\* its end generate has issued one API call for each planned age, in plan
\* order, when the base step succeeded, and the base call alone when it
\* failed; render has returned or raised.
C36_GenerateAndRenderTerminate ==
    /\ (gpc # "idle") ~> (gpc = "done")
    /\ (rpc # "idle") ~> (rpc = "done")
    /\ [](gpc = "done" =>
            IF gresult = "returned"
            THEN /\ Len(calls) = Len(ages)
                 /\ \A k \in 1..Len(calls) : calls[k].age = ages[k]
                 /\ generated_images # << >>
            ELSE /\ gresult = "raised"
                 /\ Len(calls) = 1
                 /\ calls[1].is_base
                 /\ generated_images = << >>)
    /\ [](rpc = "done" => rresult.kind \in {"returned", "raised"})

C36_Witness ==
    /\ gpc = "done"
    /\ gresult = "returned"
    /\ Len(ages) = 3
    /\ Len(calls) = 3
    /\ Len(generated_images) = 1
    /\ rpc = "done"
    /\ proc.kind = "timeout"

\* ---------------------------------------------------------------------------
\* C37: generate called with a count of zero or less and no explicit ages
\* fails before any API call is issued and without writing a file, whether
\* start and gap are given or not.
C37_NonPositiveCountFailsEarly ==
    (gpc # "idle" /\ num_images <= 0 /\ plan_in.custom = << >>) =>
        /\ ages = << >>
        /\ gpc = "done"
        /\ gresult = "raised"
        /\ calls = << >>
        /\ generated_images = << >>
        /\ nextId = 1
        /\ fs = InitFs

C37_Witness ==
    /\ gpc = "done"
    /\ num_images = -1
    /\ plan_in = [custom |-> << >>, starting_age |-> 20, age_gap |-> 15]
    /\ gresult = "raised"
    /\ calls = << >>

\* ---------------------------------------------------------------------------
\* C38: after process_audio_upload has returned or raised, the uploads
\* directory holds exactly one file of this upload when a path was returned,
\* the file at that path, and none when the call raised or returned None.
C38_OneFileIffPathReturned ==
    \A k \in 1..Len(uploaded) :
        LET u == uploaded[k]
        IN IF u.result.kind = "returned" /\ u.result.value # NoPath
           THEN u.left = {u.result.value}
           ELSE u.left = {}

\* ---------------------------------------------------------------------------
\* C39: the year label of a record is "2025" for the base record of a chain
\* and for every record regenerate_single_image returns, and 2025 plus the
\* distance of its age from the base age for a continuation record, whatever
\* steps were skipped before it.
C39_YearLabels ==
    /\ Len(generated_images) = Len(GoodCalls)
    /\ \A k \in 1..Len(generated_images) :
            LET c == GoodCalls[k]
            IN /\ generated_images[k].call_id = c.id
               /\ generated_images[k].year =
                    IF c.is_base THEN "2025" ELSE ToString(2025 + c.age - ages[1])
    /\ \A k \in 1..Len(regens) :
            regens[k].returned # << >> => regens[k].returned[1].year = "2025"

C39_Witness ==
    /\ ages = <<20, 35, 50>>
    /\ Len(generated_images) = 2
    /\ generated_images[1].year = "2025"
    /\ generated_images[2].year = "2055"
    /\ \E k \in 1..Len(regens) :
            /\ regens[k].age = 50
            /\ regens[k].previous_response_id = generated_images[1].call_id
            /\ regens[k].returned # << >>
            /\ regens[k].returned[1].year = "2025"

====
